---- MODULE Spec2Model ----
(***************************************************************************)
(* A model of the predictive_browser content pipeline:                     *)
(*   extractor.ts   - extractSkeleton / walkDOM (the Snapshotter)          *)
(*   transformer.ts - findElement (the Locator), applyTransforms and the   *)
(*                    execute* functions (the Action Executor),            *)
(*                    cleanupTransforms (the restore pass)                 *)
(*   index.ts       - main and the LINK_PREVIEWS_READY listener            *)
(*                                                                         *)
(* A document is a record of functions over the element numbers 1..n; the  *)
(* element 0 is document.body.  Text is a sequence of one-character        *)
(* strings.  A selector string is a record (see the Selectors section).    *)
(***************************************************************************)
EXTENDS Integers, Sequences, FiniteSets, TLC

\* ------------------------------------------------------------------------
\* Program constants (extractor.ts)
\* ------------------------------------------------------------------------
MAX_NODES == 150
MAX_DEPTH == 6
MAX_CHILDREN == 30
TEXT_PREVIEW_LENGTH == 80
HEAD_KEEP == 20
TAIL_KEEP == 10
PREFIX_LEN == 20
MORE_BASE == 30

\* ------------------------------------------------------------------------
\* Generic helpers
\* ------------------------------------------------------------------------
NoEl == -1
Throws == -2
NoId == -1

Min(a, b) == IF a <= b THEN a ELSE b
Max(a, b) == IF a >= b THEN a ELSE b

Range(s) == {s[i] : i \in 1..Len(s)}

Take(s, k) == SubSeq(s, 1, Min(k, Len(s)))
Drop(s, k) == SubSeq(s, Min(k, Len(s)) + 1, Len(s))

\* Left fold of Op over s[lo..hi], splitting the range in halves.  The test
\* {acc} = {} is never true: it makes the accumulator be computed before the
\* range is entered, so that the evaluation depth stays logarithmic.
RECURSIVE FoldRange(_, _, _, _, _)
FoldRange(Op(_, _), acc, s, lo, hi) ==
  IF {acc} = {} \/ lo > hi THEN acc
  ELSE IF lo = hi THEN Op(acc, s[lo])
  ELSE LET mid == (lo + hi) \div 2
       IN FoldRange(Op, FoldRange(Op, acc, s, lo, mid), s, mid + 1, hi)

FoldSeq(Op(_, _), acc, s) == FoldRange(Op, acc, s, 1, Len(s))

RECURSIVE FlattenRange(_, _, _)
FlattenRange(ss, lo, hi) ==
  IF lo > hi THEN <<>>
  ELSE IF lo = hi THEN ss[lo]
  ELSE LET mid == (lo + hi) \div 2
       IN FlattenRange(ss, lo, mid) \o FlattenRange(ss, mid + 1, hi)

Flatten(ss) == FlattenRange(ss, 1, Len(ss))

\* Array.prototype.indexOf, counted from 1 (0 when x is absent)
IndexOf(s, x) ==
  LET hits == {i \in 1..Len(s) : s[i] = x}
  IN IF hits = {} THEN 0 ELSE CHOOSE i \in hits : \A j \in hits : i <= j

\* the first (last) element of a list, other when it is empty
FirstOr(s, other) == IF s = <<>> THEN other ELSE s[1]

LastOr(s, other) == IF s = <<>> THEN other ELSE s[Len(s)]

First(s) == FirstOr(s, NoEl)

\* ------------------------------------------------------------------------
\* Text: String.prototype.trim, replace(/\s+/g, " "), slice, includes
\* ------------------------------------------------------------------------
IsWs(c) == c \in {" ", "\n"}

Indices(s) == [i \in 1..Len(s) |-> i]

Trim(s) ==
  LET nonWs == {i \in 1..Len(s) : ~IsWs(s[i])}
  IN IF nonWs = {} THEN <<>>
     ELSE LET lo == CHOOSE i \in nonWs : \A j \in nonWs : i <= j
              hi == CHOOSE i \in nonWs : \A j \in nonWs : i >= j
          IN SubSeq(s, lo, hi)

\* replace(/\s+/g, " "): every maximal run of whitespace becomes one space
CollapseWs(s) ==
  LET keep == SelectSeq(Indices(s), LAMBDA i : ~IsWs(s[i]) \/ i = 1 \/ ~IsWs(s[i-1]))
  IN [j \in 1..Len(keep) |-> IF IsWs(s[keep[j]]) THEN " " ELSE s[keep[j]]]

Ellipsis == <<".", ".", ".">>

DigitChars == <<"0", "1", "2", "3", "4", "5", "6", "7", "8", "9">>

\* the decimal digits of n (template-literal formatting of a number)
RECURSIVE Digits(_)
Digits(n) == IF n < 10 THEN <<DigitChars[n + 1]>>
             ELSE Digits(n \div 10) \o <<DigitChars[(n % 10) + 1]>>

IsDigit(c) == c \in Range(DigitChars)

\* String.prototype.toLowerCase on the alphabet of the model's documents
LowerChar(c) ==
  CASE c = "H" -> "h" [] c = "W" -> "w" [] c = "S" -> "s" [] c = "T" -> "t" [] OTHER -> c

ToLower(s) == [i \in 1..Len(s) |-> LowerChar(s[i])]

Includes(hay, needle) ==
  \E i \in 0..(Len(hay) - Len(needle)) : SubSeq(hay, i + 1, i + Len(needle)) = needle

\* ------------------------------------------------------------------------
\* The document
\* ------------------------------------------------------------------------
Body == 0

Elems(d) == 1..d.n

\* el.children of an element (of its open shadow root when it has one: the
\* model keeps the shadow root's children in kids and marks the host)
Children(d, e) == d.kids[e]

\* el.parentElement: the node whose child list holds e (d.parent), but null
\* for a child of a shadow root (the body's own parent, html, is left out)
ParentElement(d, e) ==
  IF e = Body THEN NoEl
  ELSE IF d.parent[e] = NoEl THEN NoEl
  ELSE IF d.parent[e] # Body /\ d.shadow[d.parent[e]] THEN NoEl
  ELSE d.parent[e]

\* Elements document.querySelector(All) can see, in document order: the body
\* and its light-tree descendants (nothing inside a shadow root)
RECURSIVE DocOrderFrom(_, _)
DocOrderFrom(d, e) ==
  <<e>> \o (IF e # Body /\ d.shadow[e] THEN <<>>
            ELSE Flatten([i \in 1..Len(d.kids[e]) |-> DocOrderFrom(d, d.kids[e][i])]))

DocOrder(d) == DocOrderFrom(d, Body)

TagOf(d, e) == IF e = Body THEN "body" ELSE d.tag[e]

\* el.textContent: own text followed by the text of the light-tree descendants
RECURSIVE TextContent(_, _)
TextContent(d, e) ==
  (IF e = Body THEN <<>> ELSE d.text[e]) \o
  (IF e # Body /\ d.shadow[e] THEN <<>>
   ELSE Flatten([i \in 1..Len(d.kids[e]) |-> TextContent(d, d.kids[e][i])]))

\* ------------------------------------------------------------------------
\* Selectors.  k: "marker"  [data-pb-node="node-<n>"]
\*                "id"      #<s>
\*                "testid"  [data-testid="<s>"]
\*                "aria"    [aria-label="<s>"]
\*                "tag"     <s>
\*                "path"    p[1] > p[2] > ... , each part tag or tag:nth-child(i)
\*                "invalid" a string that is no CSS selector
\*                "empty"   the empty string
\* ------------------------------------------------------------------------
MarkerSel(n) == [k |-> "marker", n |-> n, s |-> "", p |-> <<>>]
IdSel(s) == [k |-> "id", n |-> NoId, s |-> s, p |-> <<>>]
TestIdSel(s) == [k |-> "testid", n |-> NoId, s |-> s, p |-> <<>>]
AriaSel(s) == [k |-> "aria", n |-> NoId, s |-> s, p |-> <<>>]
TagSel(s) == [k |-> "tag", n |-> NoId, s |-> s, p |-> <<>>]
PathSel(p) == [k |-> "path", n |-> NoId, s |-> "", p |-> p]
InvalidSel == [k |-> "invalid", n |-> NoId, s |-> "", p |-> <<>>]
EmptySel == [k |-> "empty", n |-> NoId, s |-> "", p |-> <<>>]

Part(tag, nth) == [tag |-> tag, nth |-> nth]

PartMatches(d, e, part) ==
  /\ TagOf(d, e) = part.tag
  /\ part.nth = 0 \/ (e # Body /\ ParentElement(d, e) # NoEl
                      /\ IndexOf(d.kids[ParentElement(d, e)], e) = part.nth)

\* e matches the child-combinator chain p[1] > ... > p[k], k the last part
RECURSIVE PathMatches(_, _, _, _)
PathMatches(d, e, p, k) ==
  /\ PartMatches(d, e, p[k])
  /\ k = 1 \/ (ParentElement(d, e) # NoEl /\ PathMatches(d, ParentElement(d, e), p, k - 1))

Matches(d, e, sel) ==
  CASE sel.k = "marker" -> e # Body /\ d.marker[e] = sel.n
    [] sel.k = "id"     -> e # Body /\ d.idAttr[e] = sel.s
    [] sel.k = "testid" -> e # Body /\ d.testid[e] = sel.s
    [] sel.k = "aria"   -> e # Body /\ d.aria[e] = sel.s
    [] sel.k = "tag"    -> TagOf(d, e) = sel.s
    [] sel.k = "path"   -> Len(sel.p) > 0 /\ PathMatches(d, e, sel.p, Len(sel.p))
    [] OTHER            -> FALSE

\* The first element in document order, in the subtree of e, that ends a chain
\* e = x[k], x[k+1], ..., x[Len(p)] of children matching p[k..Len(p)]; e is
\* known to match p[k].  (For a path that starts at the body this is the first
\* match of the whole path.)
RECURSIVE PathFirst(_, _, _, _), PathFirstAmong(_, _, _, _)
PathFirst(d, e, p, k) ==
  IF k = Len(p) THEN e
  ELSE IF e # Body /\ d.shadow[e] THEN NoEl
  ELSE PathFirstAmong(d, SelectSeq(d.kids[e], LAMBDA c : PartMatches(d, c, p[k + 1])), p, k + 1)

\* the first chain end below one of the candidates cands, which match p[k]
PathFirstAmong(d, cands, p, k) ==
  First(SelectSeq([i \in 1..Len(cands) |-> PathFirst(d, cands[i], p, k)],
                  LAMBDA r : r # NoEl))

\* document.querySelectorAll: every match in document order
querySelectorAll(d, sel) == SelectSeq(DocOrder(d), LAMBDA e : Matches(d, e, sel))

\* document.querySelector: the first match in document order, null (NoEl), or a
\* SyntaxError (Throws) for a string that is no selector
querySelector(d, sel) ==
  IF sel.k \in {"invalid", "empty"} THEN Throws
  ELSE IF sel.k = "path" /\ Len(sel.p) > 0 /\ sel.p[1] = Part("body", 0)
       THEN PathFirst(d, Body, sel.p, 1)
  ELSE First(querySelectorAll(d, sel))

\* ------------------------------------------------------------------------
\* extractor.ts
\* ------------------------------------------------------------------------
SKIP_TAGS == {"script", "style", "noscript", "template", "iframe"}

\* getTextPreview: alt for images, else trimmed, whitespace-collapsed
\* textContent cut to TEXT_PREVIEW_LENGTH characters plus "..."
truncatePreview(text) ==
  IF Len(text) > TEXT_PREVIEW_LENGTH THEN SubSeq(text, 1, TEXT_PREVIEW_LENGTH) \o Ellipsis
  ELSE text

getTextPreview(d, el) ==
  IF d.tag[el] = "img" \/ d.role[el] = "img" THEN d.alt[el]
  ELSE truncatePreview(CollapseWs(Trim(TextContent(d, el))))

classifyElement(d, el) ==
  LET tag == d.tag[el]
      role == d.role[el]
  IN CASE tag \in {"h1", "h2", "h3", "h4", "h5", "h6"} -> "heading"
       [] tag = "nav" \/ role = "navigation" -> "nav"
       [] tag \in {"section", "article", "main", "aside"} \/ role \in {"main", "region"} -> "section"
       [] tag = "a" /\ d.href[el] -> "link"
       [] tag \in {"img", "picture", "svg"} \/ role = "img" -> "image"
       [] tag \in {"ul", "ol"} \/ role = "list" -> "list"
       [] tag = "form" \/ role = "form" -> "form"
       [] tag \in {"p", "span", "div"} /\ Len(getTextPreview(d, el)) > 0 -> "text"
       [] OTHER -> "unknown"

\* isHidden (zero box, display none, visibility hidden) and isAdOrCookieBanner
\* (class/id token patterns) read element properties the model keeps as flags
isHidden(d, el) == d.hidden[el]

isAdOrCookieBanner(d, el) == d.adLike[el]

shouldSkipElement(d, el) ==
  \/ d.tag[el] \in SKIP_TAGS
  \/ d.tag[el] = "svg" /\ d.role[el] # "img"
  \/ isHidden(d, el)
  \/ isAdOrCookieBanner(d, el)

\* the path from el up to the body: <<el, parent, ..., body>>, stopping at an
\* element without parentElement
RECURSIVE Ancestry(_, _)
Ancestry(d, e) ==
  IF e = Body \/ ParentElement(d, e) = NoEl THEN <<e>>
  ELSE <<e>> \o Ancestry(d, ParentElement(d, e))

Reverse(s) == [i \in 1..Len(s) |-> s[Len(s) + 1 - i]]

\* one part of the full path: tag:nth-child(index), the bare tag for the body
\* and for an element without parentElement
nthChildPart(d, e) ==
  IF e = Body \/ ParentElement(d, e) = NoEl THEN Part(TagOf(d, e), 0)
  ELSE Part(TagOf(d, e), IndexOf(d.kids[ParentElement(d, e)], e))

fullNthChildPath(d, up) == PathSel([i \in 1..Len(up) |-> nthChildPart(d, up[i])])

buildFullNthChildSelector(d, el) == fullNthChildPath(d, Reverse(Ancestry(d, el)))

\* one part of the positional path: the bare tag when no sibling has the same
\* tag, else tag:nth-child(index)
siblingPart(d, e, siblings) ==
  IF Cardinality({i \in 1..Len(siblings) : d.tag[siblings[i]] = d.tag[e]}) = 1
  THEN Part(d.tag[e], 0)
  ELSE Part(d.tag[e], IndexOf(siblings, e))

positionalPart(d, e) ==
  IF e = Body \/ ParentElement(d, e) = NoEl THEN Part(TagOf(d, e), 0)
  ELSE siblingPart(d, e, d.kids[ParentElement(d, e)])

positionalPath(d, up) == PathSel([i \in 1..Len(up) |-> positionalPart(d, up[i])])

\* the validation at the end of buildPositionalSelector
validatedSelector(d, el, selector) ==
  IF querySelector(d, selector) = el THEN selector
  ELSE buildFullNthChildSelector(d, el)

buildPositionalSelector(d, el) ==
  validatedSelector(d, el, positionalPath(d, Reverse(Ancestry(d, el))))

generateSelector(d, el) ==
  IF d.idAttr[el] # "" /\ querySelector(d, IdSel(d.idAttr[el])) = el THEN IdSel(d.idAttr[el])
  ELSE IF d.testid[el] # "" /\ querySelector(d, TestIdSel(d.testid[el])) = el
       THEN TestIdSel(d.testid[el])
  ELSE IF d.aria[el] # "" /\ querySelector(d, AriaSel(d.aria[el])) = el
       THEN AriaSel(d.aria[el])
  ELSE buildPositionalSelector(d, el)

areSimilarPreviews(a, b) ==
  IF a = b THEN TRUE
  ELSE IF Len(a) = 0 \/ Len(b) = 0 THEN FALSE
  ELSE IF 2 * Min(Len(a), Len(b)) < Max(Len(a), Len(b)) THEN FALSE
  ELSE LET prefixLen == Min(PREFIX_LEN, Min(Len(a), Len(b)))
       IN SubSeq(a, 1, prefixLen) = SubSeq(b, 1, prefixLen)

\* A snapshot node.  Beside the fields of the interface it records the element
\* the node was created from (el, NoEl for a synthetic node), the repeat count
\* deduplicateSiblings wrote into textPreview (rep) and the count a synthetic
\* node reports (more), and the ids of its child nodes as deduplicateSiblings
\* returned them, before enforceChildLimit (dedupedIds).
SkeletonNode(id, sel, fb, type, text, tag, children, el) ==
  [id |-> id, selector |-> sel, fallbackSelector |-> fb, type |-> type,
   textPreview |-> text, tag |-> tag, children |-> children, el |-> el,
   rep |-> 1, more |-> 0, dedupedIds |-> <<>>]

\* an iteration that does not look at the children: what dedupStep must not be
dedupStepAnyNode(groups, node) ==
  IF /\ groups # <<>>
     /\ groups[Len(groups)].node.type = node.type
     /\ areSimilarPreviews(groups[Len(groups)].node.textPreview, node.textPreview)
  THEN [groups EXCEPT ![Len(groups)] = [node |-> @.node, count |-> @.count + 1]]
  ELSE Append(groups, [node |-> node, count |-> 1])

\* one iteration of the for-loop of deduplicateSiblings over the groups
\* <<first node, count>>
dedupStep(groups, node) ==
  IF /\ groups # <<>>
     /\ groups[Len(groups)].node.type = node.type
     /\ groups[Len(groups)].node.children = <<>>
     /\ node.children = <<>>
     /\ areSimilarPreviews(groups[Len(groups)].node.textPreview, node.textPreview)
  THEN [groups EXCEPT ![Len(groups)] = [node |-> @.node, count |-> @.count + 1]]
  ELSE Append(groups, [node |-> node, count |-> 1])

dedupGroups(nodes) == FoldSeq(dedupStep, <<>>, nodes)

\* the text "<times sign> repeated <count>x: "; the one non-ASCII character
\* (U+00D7) is written "*"
TimesSign == "*"

RepeatPrefix(count) ==
  <<TimesSign, " ", "r", "e", "p", "e", "a", "t", "e", "d", " ">> \o Digits(count) \o <<"x", ":", " ">>

\* groups.map(...): a group of more than one node gets the repeat prefix
labelRepeats(groups) ==
  [i \in 1..Len(groups) |->
     IF groups[i].count > 1
     THEN [groups[i].node EXCEPT
             !.textPreview = RepeatPrefix(groups[i].count) \o groups[i].node.textPreview,
             !.rep = groups[i].count]
     ELSE groups[i].node]

deduplicateSiblings(nodes) ==
  IF Len(nodes) <= 1 THEN nodes ELSE labelRepeats(dedupGroups(nodes))

\* the text "... (<count> more items)"
MoreItemsText(count) ==
  <<".", ".", ".", " ", "(">> \o Digits(count)
  \o <<" ", "m", "o", "r", "e", " ", "i", "t", "e", "m", "s", ")">>

\* enforceChildLimit; nodeCounter is read for the synthetic node's id (the
\* caller advances it when the list was cut)
childLimitCuts(children) == Len(children) > MAX_CHILDREN

\* a cut without the summary node: what enforceChildLimit must not be
enforceChildLimitNoSummary(children, nodeCounter) ==
  IF ~childLimitCuts(children) THEN children
  ELSE SubSeq(children, 1, HEAD_KEEP)
       \o SubSeq(children, Len(children) - TAIL_KEEP + 1, Len(children))

\* a cut whose synthetic node takes the id of the last child instead of a
\* fresh one: what enforceChildLimit must not be
enforceChildLimitStaleId(children, nodeCounter) ==
  IF ~childLimitCuts(children) THEN children
  ELSE SubSeq(children, 1, HEAD_KEEP)
       \o <<[SkeletonNode(children[Len(children)].id, EmptySel, EmptySel, "text",
                          MoreItemsText(Len(children) - MORE_BASE),
                          "synthetic", <<>>, NoEl)
               EXCEPT !.more = Len(children) - MORE_BASE]>>
       \o SubSeq(children, Len(children) - TAIL_KEEP + 1, Len(children))

enforceChildLimit(children, nodeCounter) ==
  IF ~childLimitCuts(children) THEN children
  ELSE SubSeq(children, 1, HEAD_KEEP)
       \o <<[SkeletonNode(nodeCounter, EmptySel, EmptySel, "text",
                          MoreItemsText(Len(children) - MORE_BASE),
                          "synthetic", <<>>, NoEl)
               EXCEPT !.more = Len(children) - MORE_BASE]>>
       \o SubSeq(children, Len(children) - TAIL_KEEP + 1, Len(children))

\* walkDOM.  w is the walk's mutable state: the module counters nodeCounter and
\* totalNodes and the data-pb-node attribute of every element (marker).
\* walkChild is one iteration of the for-loop over el.children; acc holds the
\* results so far and w.
\* the node walkDOM creates for child and pushes onto results: nodeId is the
\* counter's value, nthChildPath what generateSelector returned, deduped the
\* child's own nodes after deduplicateSiblings
pushNode(d, acc, child, textPreview, sub, nodeId, nthChildPath, deduped) ==
  [results |->
     Append(acc.results,
            [SkeletonNode(nodeId, MarkerSel(nodeId),
                          IF nthChildPath # MarkerSel(nodeId) THEN nthChildPath ELSE EmptySel,
                          classifyElement(d, child), textPreview, d.tag[child],
                          enforceChildLimit(deduped, nodeId + 1), child)
               EXCEPT !.dedupedIds = [i \in 1..Len(deduped) |-> deduped[i].id]]),
   w |-> [nodeCounter |-> IF childLimitCuts(deduped) THEN nodeId + 2 ELSE nodeId + 1,
          totalNodes |-> sub.w.totalNodes + 1,
          marker |-> [sub.w.marker EXCEPT ![child] = nodeId]]]

\* the loop body once the child's subtree has been walked (sub)
visitChild(d, acc, child, textPreview, sub) ==
  IF Len(textPreview) = 0 /\ sub.results = <<>>
  THEN [results |-> acc.results, w |-> sub.w]
  ELSE pushNode(d, acc, child, textPreview, sub, sub.w.nodeCounter,
                generateSelector(d, child), deduplicateSiblings(sub.results))

RECURSIVE walkDOM(_, _, _, _), walkChild(_, _, _, _)
\* a walk without the depth test: what walkDOM must not be
walkDOMAnyDepth(d, el, depth, w) ==
  IF w.totalNodes >= MAX_NODES THEN [results |-> <<>>, w |-> w]
  ELSE FoldSeq(LAMBDA acc, child : walkChild(d, depth, acc, child),
               [results |-> <<>>, w |-> w], Children(d, el))

walkDOM(d, el, depth, w) ==
  IF depth > MAX_DEPTH \/ w.totalNodes >= MAX_NODES THEN [results |-> <<>>, w |-> w]
  ELSE FoldSeq(LAMBDA acc, child : walkChild(d, depth, acc, child),
               [results |-> <<>>, w |-> w], Children(d, el))

walkChild(d, depth, acc, child) ==
  IF acc.w.totalNodes >= MAX_NODES THEN acc
  ELSE IF shouldSkipElement(d, child) THEN acc
  ELSE visitChild(d, acc, child, getTextPreview(d, child),
                  walkDOM(d, child, depth + 1, acc.w))

\* extractSkeleton: reset the counters, clear stale stamps, walk from the body.
\* Returns the snapshot's node list and the stamps left on the document.
\* the counters reset and the stale stamps cleared
freshWalk(d, seen) ==
  [nodeCounter |-> 0, totalNodes |-> 0,
   marker |-> [e \in Elems(d) |-> IF e \in seen THEN NoId ELSE d.marker[e]]]

PageSkeleton(r) == [nodes |-> deduplicateSiblings(r.results), marker |-> r.w.marker]

extractSkeleton(d) ==
  PageSkeleton(walkDOM(d, Body, 0, freshWalk(d, Range(DocOrder(d)))))

\* every node of a snapshot, flattened in pre-order (walkNodes)
RECURSIVE walkNodes(_)
walkNodes(nodes) ==
  Flatten([i \in 1..Len(nodes) |-> <<nodes[i]>> \o walkNodes(nodes[i].children)])

countNodes(nodes) == Len(walkNodes(nodes))

\* ------------------------------------------------------------------------
\* Documents
\* ------------------------------------------------------------------------
\* An element with every property at its default
\* el.style: the inline style properties the transformer reads or writes
\* ("" = not set)
NoStyle ==
  [borderLeft |-> "", backgroundColor |-> "", paddingLeft |-> "", borderRadius |-> "",
   animation |-> "", transition |-> "", fontSize |-> "", lineHeight |-> "",
   maxHeight |-> "", overflow |-> "", opacity |-> "", display |-> "",
   transform |-> "", pointerEvents |-> ""]

\* el.dataset without the node marker: the applied marker (pbTransformed), the
\* removed marker (pbCollapsed) and the stored original values (pbOriginal*),
\* Undef for an attribute that is absent
Undef == "<undefined>"

NoData ==
  [transformed |-> FALSE, collapsed |-> FALSE,
   border |-> Undef, bg |-> Undef, padding |-> Undef, opacity |-> Undef,
   pointerEvents |-> Undef, fontSize |-> Undef, lineHeight |-> Undef,
   maxHeight |-> Undef, overflow |-> Undef, height |-> Undef]

PlainElem(tag, text) ==
  [tag |-> tag, text |-> text, role |-> "", href |-> FALSE, alt |-> <<>>,
   idAttr |-> "", testid |-> "", aria |-> "", hidden |-> FALSE, adLike |-> FALSE,
   shadow |-> FALSE, pos |-> "static", tall |-> FALSE, hint |-> FALSE,
   inline |-> NoStyle]

\* The document with the elements es (a sequence of element records), the
\* child lists kids (a function on 0..Len(es)) and the matching parent function
MkDocument(es, kids, parent) ==
  [n |-> Len(es),
   kids |-> kids,
   parent |-> parent,
   tag |-> [e \in 1..Len(es) |-> es[e].tag],
   text |-> [e \in 1..Len(es) |-> es[e].text],
   role |-> [e \in 1..Len(es) |-> es[e].role],
   href |-> [e \in 1..Len(es) |-> es[e].href],
   alt |-> [e \in 1..Len(es) |-> es[e].alt],
   idAttr |-> [e \in 1..Len(es) |-> es[e].idAttr],
   testid |-> [e \in 1..Len(es) |-> es[e].testid],
   aria |-> [e \in 1..Len(es) |-> es[e].aria],
   hidden |-> [e \in 1..Len(es) |-> es[e].hidden],
   adLike |-> [e \in 1..Len(es) |-> es[e].adLike],
   shadow |-> [e \in 1..Len(es) |-> es[e].shadow],
   pos |-> [e \in 1..Len(es) |-> es[e].pos],
   tall |-> [e \in 1..Len(es) |-> es[e].tall],
   hint |-> [e \in 1..Len(es) |-> es[e].hint],
   marker |-> [e \in 1..Len(es) |-> NoId],
   ds |-> [e \in 1..Len(es) |-> NoData],
   style |-> [e \in 1..Len(es) |-> es[e].inline],
   badges |-> <<>>]

\* badges are the label elements (.pb-annotation-badge, .pb-link-preview-badge)
\* in the document: the text of each and the element it stands before.

\* Layered documents for the Snapshotter: level L has ws[1] * ... * ws[L]
\* elements, each element of level L has ws[L+1] children; the elements are
\* numbered level by level.  Inner elements are divs without own text, the
\* leaves are paragraphs whose texts are all different (mode "distinct") or all
\* equal (mode "same"); in mode "shadow" every inner element is the host of an
\* open shadow root that holds its children.
RECURSIVE LevelCount(_, _)
LevelCount(ws, L) == IF L = 0 THEN 1 ELSE ws[L] * LevelCount(ws, L - 1)

RECURSIVE LevelOffset(_, _)
LevelOffset(ws, L) == IF L <= 1 THEN 0 ELSE LevelOffset(ws, L - 1) + LevelCount(ws, L - 1)

LayeredSize(ws) == LevelOffset(ws, Len(ws) + 1)

LevelOfElem(ws, e) == CHOOSE L \in 1..Len(ws) : LevelOffset(ws, L) < e /\ e <= LevelOffset(ws, L + 1)

LayeredKids(ws, e) ==
  IF e = Body THEN [i \in 1..ws[1] |-> i]
  ELSE LET L == LevelOfElem(ws, e)
           j == e - LevelOffset(ws, L)
       IN IF L = Len(ws) THEN <<>>
          ELSE [i \in 1..ws[L + 1] |-> LevelOffset(ws, L + 1) + (j - 1) * ws[L + 1] + i]

LayeredParent(ws, e) ==
  LET L == LevelOfElem(ws, e)
      j == e - LevelOffset(ws, L)
  IN IF L = 1 THEN Body
     ELSE LevelOffset(ws, L - 1) + ((j - 1) \div ws[L]) + 1

LayeredDoc(ws, mode) ==
  LET n == LayeredSize(ws)
      leafText(e) == IF mode = "same" THEN <<"i", "t", "e", "m">>
                     ELSE <<"t">> \o Digits(1000 + e)
      elem(e) == IF LevelOfElem(ws, e) = Len(ws) THEN PlainElem("p", leafText(e))
                 ELSE [PlainElem("div", <<>>) EXCEPT !.shadow = (mode = "shadow")]
  IN MkDocument([e \in 1..n |-> elem(e)], [e \in 0..n |-> LayeredKids(ws, e)],
                [e \in 1..n |-> LayeredParent(ws, e)])

\* ------------------------------------------------------------------------
\* transformer.ts: the Locator
\* ------------------------------------------------------------------------
FINGERPRINT_LEN == 35
MIN_RAW_LEN == 8
EL_TEXT_LEN == 300
EXACT_CAP == 400
BROAD_CAP == 250

FrameworkType == {"next", "react", "vue", "angular", "vanilla"}

\* detectFramework: win is the set of fingerprints present in the window and
\* the document
detectFramework(win) ==
  IF "__NEXT_DATA__" \in win THEN "next"
  ELSE IF "__nuxt" \in win \/ "__vue_app__" \in win THEN "vue"
  ELSE IF "getAllAngularRootElements" \in win \/ "[ng-version]" \in win THEN "angular"
  ELSE IF "[data-reactroot]" \in win THEN "react"
  ELSE "vanilla"

\* buildSelectorMap / Map.get: the node stored under a selector (the last one
\* set), NoNode when the key is absent; nodes with an empty selector are not
\* stored
NoNode == [id |-> NoId]

selectorMapGet(flat, selector) ==
  LastOr(SelectSeq(flat, LAMBDA n : n.selector # EmptySel /\ n.selector = selector), NoNode)

\* buildFallbackMap / Map.get: EmptySel stands for undefined
fallbackMapGet(flat, selector) ==
  LastOr(SelectSeq(flat, LAMBDA n : n.fallbackSelector # EmptySel /\ n.selector = selector),
         [fallbackSelector |-> EmptySel]).fallbackSelector

\* .replace(/\.\.\.$/, '')  (the following replace of a trailing U+2026 finds
\* nothing: the model's texts have no such character)
StripEllipsis(t) ==
  IF Len(t) >= 3 /\ SubSeq(t, Len(t) - 2, Len(t)) = Ellipsis THEN SubSeq(t, 1, Len(t) - 3)
  ELSE t

\* .replace(/^x\s*repeated \d+x:\s*/, '')
\* the end of the run of whitespace (of digits) that starts at position from:
\* from - 1 when the run is empty
WsRunEnd(t, from) ==
  CHOOSE k \in (from - 1)..Len(t) :
    /\ \A j \in from..k : IsWs(t[j])
    /\ k = Len(t) \/ ~IsWs(t[k + 1])

DigitRunEnd(t, from) ==
  CHOOSE k \in (from - 1)..Len(t) :
    /\ \A j \in from..k : IsDigit(t[j])
    /\ k = Len(t) \/ ~IsDigit(t[k + 1])

RepeatedWord == <<"r", "e", "p", "e", "a", "t", "e", "d", " ">>

\* t with "x:" and the whitespace behind it cut off, when "x:" follows the
\* digits that end at position e
stripAfterCount(t, e) ==
  IF Len(t) >= e + 2 /\ t[e + 1] = "x" /\ t[e + 2] = ":" THEN Drop(t, WsRunEnd(t, e + 3))
  ELSE t

\* a the position the word "repeated " ends at
stripCount(t, a) ==
  IF DigitRunEnd(t, a + 1) > a THEN stripAfterCount(t, DigitRunEnd(t, a + 1)) ELSE t

\* k the position the whitespace behind the times sign ends at
stripRepeated(t, k) ==
  IF Len(t) >= k + Len(RepeatedWord) /\ SubSeq(t, k + 1, k + Len(RepeatedWord)) = RepeatedWord
  THEN stripCount(t, k + Len(RepeatedWord))
  ELSE t

StripRepeatPrefix(t) ==
  IF Len(t) >= 1 /\ t[1] = TimesSign THEN stripRepeated(t, WsRunEnd(t, 2)) ELSE t

\* the text an element is compared by in findByTextContent
elText(d, el) ==
  ToLower(Take(CollapseWs(Trim(TextContent(d, el))), EL_TEXT_LEN))

ContainerTags == {"div", "section", "article", "aside", "main", "header", "footer", "li", "td", "tr"}

\* the selector list of pass 2: section, article, [class*="content"], ...
BroadMatches(d, e) == e # Body /\ (d.tag[e] \in {"section", "article"} \/ d.hint[e])

\* findByTextContent: the first candidate, not yet carrying the applied marker,
\* whose text contains the fingerprint
\* a candidate that does not carry the applied marker and whose text contains
\* the fingerprint
textHit(d, e, fingerprint) ==
  e # Body /\ ~d.ds[e].transformed /\ Includes(elText(d, e), fingerprint)

\* pass 1 over the elements of the node's tag, then pass 2 over the containers
searchByFingerprint(d, node, fingerprint) ==
  FirstOr(SelectSeq(Take(querySelectorAll(d, TagSel(node.tag)), EXACT_CAP),
                    LAMBDA e : textHit(d, e, fingerprint)),
          IF node.tag \in ContainerTags
          THEN First(SelectSeq(Take(SelectSeq(DocOrder(d), LAMBDA e : BroadMatches(d, e)),
                                    BROAD_CAP),
                               LAMBDA e : textHit(d, e, fingerprint)))
          ELSE NoEl)

searchByRaw(d, node, raw) ==
  IF Len(raw) < MIN_RAW_LEN THEN NoEl
  ELSE searchByFingerprint(d, node, ToLower(Take(raw, FINGERPRINT_LEN)))

findByTextContent(d, node) ==
  searchByRaw(d, node, Trim(StripRepeatPrefix(StripEllipsis(node.textPreview))))

\* findElement.  flat is the snapshot's node list flattened (the two lookup
\* maps are read from it).  The result is the element (NoEl for null) and the
\* document, which a re-stamp changes; thrown is TRUE when
\* document.querySelector raised.
Found(el, d) == [el |-> el, d |-> d, thrown |-> FALSE]

\* a finder that leaves the attribute alone: what restamp must not be
restampNothing(d, found, nodeId) == Found(found, d)

restamp(d, found, nodeId) ==
  Found(found, IF nodeId # NoId THEN [d EXCEPT !.marker[found] = nodeId] ELSE d)

\* tier 2: the fallback selector stored for the selector (EmptySel: none)
tier2(d, fallback) == IF fallback # EmptySel THEN querySelector(d, fallback) ELSE NoEl

\* tier 3: the text fingerprint of the node stored for the selector
tier3(d, skeletonNode) ==
  IF skeletonNode.id # NoId THEN findByTextContent(d, skeletonNode) ELSE NoEl

\* the order of the tiers below tier 1: 2, 3 (for Next.js: 3, 2)
\* tier 2 before tier 3 whatever the framework: what lowerTiers must not be
lowerTiersSameOrder(framework, t2, t3) == IF t2 # NoEl THEN t2 ELSE t3

lowerTiers(framework, t2, t3) ==
  IF framework # "next" /\ t2 # NoEl THEN t2
  ELSE IF t3 # NoEl THEN t3
  ELSE IF framework = "next" THEN t2
  ELSE NoEl

restampFound(d, nodeId, el) == IF el = NoEl THEN Found(NoEl, d) ELSE restamp(d, el, nodeId)

afterTier1(d, selector, flat, framework, el) ==
  IF el = Throws THEN [el |-> NoEl, d |-> d, thrown |-> TRUE]
  ELSE IF el # NoEl THEN Found(el, d)
  ELSE restampFound(d, IF selector.k = "marker" THEN selector.n ELSE NoId,
                    lowerTiers(framework, tier2(d, fallbackMapGet(flat, selector)),
                               tier3(d, selectorMapGet(flat, selector))))

findElement(d, selector, flat, framework) ==
  afterTier1(d, selector, flat, framework, querySelector(d, selector))

\* ------------------------------------------------------------------------
\* transformer.ts: the Action Executor
\* ------------------------------------------------------------------------
STAGGER_DELAY == 20
COLLAPSE_DURATION == 220
TALL_COLLAPSE_DURATION == 280
REORDER_DURATION == 500
REORDER_SLACK == 60
SCALE_MIN == 65
SCALE_MID == 80
SCALE_MAX == 92

\* An executor's outcome: the document, the callbacks it handed to
\* requestAnimationFrame (frames) and to setTimeout (timeouts), and whether it
\* raised
Outcome(d, frames, timeouts) ==
  [d |-> d, frames |-> frames, timeouts |-> timeouts, thrown |-> FALSE]

Raised(d) == [d |-> d, frames |-> <<>>, timeouts |-> <<>>, thrown |-> TRUE]

FrameCb(kind, el) == [kind |-> kind, el |-> el]
TimeoutCb(kind, el, ms) == [kind |-> kind, el |-> el, p |-> 0, due |-> ms]

TextTags == {"p", "h1", "h2", "h3", "h4", "h5", "h6", "span", "li", "td", "blockquote",
             "cite", "figcaption", "label", "dt", "dd"}

scaleFontSize(d, el, relevance) ==
  IF relevance < SCALE_MIN THEN d
  ELSE IF d.tag[el] \notin TextTags /\ Trim(d.text[el]) = <<>> THEN d
  ELSE [d EXCEPT !.ds[el].fontSize = d.style[el].fontSize,
                 !.ds[el].lineHeight = d.style[el].lineHeight,
                 !.style[el].fontSize =
                   "base*" \o (IF relevance >= SCALE_MAX THEN "1.28"
                               ELSE IF relevance >= SCALE_MID THEN "1.15" ELSE "1.06"),
                 !.style[el].lineHeight = "1.5",
                 !.style[el].transition = "font-size"]

executeHighlight(d, el, instruction) ==
  Outcome(scaleFontSize([d EXCEPT !.ds[el].border = d.style[el].borderLeft,
                                  !.ds[el].bg = d.style[el].backgroundColor,
                                  !.ds[el].padding = d.style[el].paddingLeft,
                                  !.style[el].transition = "all"],
                        el, instruction.relevance),
          <<FrameCb("highlight", el)>>, <<>>)

executeCollapse(d, el, instruction) ==
  Outcome([d EXCEPT !.ds[el].height = "height",
                    !.ds[el].overflow = d.style[el].overflow,
                    !.ds[el].maxHeight = d.style[el].maxHeight,
                    !.style[el].maxHeight = "height",
                    !.style[el].overflow = "hidden",
                    !.style[el].transition = "max-height, opacity"],
          <<FrameCb("collapse", el)>>,
          <<TimeoutCb("hide", el,
                      IF d.tall[el] THEN TALL_COLLAPSE_DURATION ELSE COLLAPSE_DURATION)>>)

\* an element's inclusive descendants in the light tree
RECURSIVE Subtree(_, _)
Subtree(d, e) ==
  {e} \cup UNION {Subtree(d, d.kids[e][i]) : i \in 1..Len(d.kids[e])}

RemoveFrom(s, x) == SelectSeq(s, LAMBDA y : y # x)

InsertAt(s, i, x) == SubSeq(s, 1, i - 1) \o <<x>> \o SubSeq(s, i, Len(s))

\* parent.insertBefore(el, ref), ref a child of parent (NoEl: append).
\* Inserting before el itself changes nothing.
detach(d, el) ==
  IF d.parent[el] = NoEl THEN d ELSE [d EXCEPT !.kids[d.parent[el]] = RemoveFrom(@, el)]

attach(d, parent, el, ref) ==
  [d EXCEPT !.kids[parent] = InsertAt(@, IF ref = NoEl THEN Len(@) + 1 ELSE IndexOf(@, ref), el),
            !.parent[el] = parent]

insertBefore(d, parent, el, ref) ==
  IF ref = el THEN d ELSE attach(detach(d, el), parent, el, ref)

\* instruction.position: "top", "above:<selector>" ("above" with the selector
\* in psel), or absent ("none")
\* the insertion step of executeReorder: the document, or an exception
Placed(d) == [d |-> d, thrown |-> FALSE]

insertAbove(d, el, targetEl) ==
  IF targetEl = Throws THEN [d |-> d, thrown |-> TRUE]
  ELSE IF targetEl = NoEl THEN Placed(d)
  ELSE IF ParentElement(d, targetEl) = NoEl THEN Placed(d)
  ELSE IF targetEl # el /\ targetEl \in Subtree(d, el) THEN [d |-> d, thrown |-> TRUE]
  ELSE Placed(insertBefore(d, ParentElement(d, targetEl), el, targetEl))

place(d, el, parent, instruction) ==
  IF instruction.position = "top"
  THEN Placed(insertBefore(d, parent, el, FirstOr(d.kids[parent], NoEl)))
  ELSE IF instruction.position = "above"
  THEN insertAbove(d, el, querySelector(d, instruction.psel))
  ELSE Placed(d)

\* the FLIP animation that follows the insertion
flip(el, r) ==
  IF r.thrown THEN Raised(r.d)
  ELSE Outcome([r.d EXCEPT !.style[el].transform = "translate(dx, dy)",
                           !.style[el].opacity = "0.5",
                           !.style[el].transition = "none"],
               <<FrameCb("reorder", el)>>,
               <<TimeoutCb("reorderEnd", el, REORDER_DURATION + REORDER_SLACK)>>)

executeReorder(d, el, instruction) ==
  IF ParentElement(d, el) = NoEl THEN Outcome(d, <<>>, <<>>)
  ELSE IF d.pos[el] \in {"fixed", "sticky"} THEN Outcome(d, <<>>, <<>>)
  ELSE flip(el, place(d, el, ParentElement(d, el), instruction))

executeDim(d, el, instruction) ==
  Outcome([d EXCEPT !.ds[el].opacity = d.style[el].opacity,
                    !.ds[el].pointerEvents = d.style[el].pointerEvents,
                    !.style[el].transition = "opacity"],
          <<FrameCb("dim", el)>>, <<>>)

\* the requestAnimationFrame callback of each executor
runFrame(d, cb) ==
  LET el == cb.el IN
  CASE cb.kind = "highlight" ->
         [d EXCEPT !.style[el].borderLeft = "3px solid accent",
                   !.style[el].backgroundColor = "accent 0.06",
                   !.style[el].paddingLeft = "computed+8px",
                   !.style[el].borderRadius = "3px",
                   !.style[el].animation = "pb-pulse"]
    [] cb.kind = "collapse" ->
         [d EXCEPT !.style[el].maxHeight = "0px", !.style[el].opacity = "0"]
    [] cb.kind = "reorder" ->
         [d EXCEPT !.style[el].transition = "transform, opacity",
                   !.style[el].transform = "translate(0, 0)",
                   !.style[el].opacity = "1"]
    [] cb.kind = "dim" ->
         [d EXCEPT !.style[el].opacity = "0.12", !.style[el].pointerEvents = "none"]
    [] OTHER -> d

\* the setTimeout callbacks of executeCollapse and executeReorder
runTimeout(d, cb) ==
  LET el == cb.el IN
  CASE cb.kind = "hide" ->
         [d EXCEPT !.style[el].display = "none", !.ds[el].collapsed = TRUE]
    [] cb.kind = "reorderEnd" ->
         [d EXCEPT !.style[el].transform = "", !.style[el].transition = ""]
    [] OTHER -> d

hasCollapsedAncestor(d, el) ==
  \E a \in Range(Tail(Ancestry(d, el))) : a # Body /\ d.ds[a].collapsed

\* cleanupTransforms on the elements of the document (the digest panel and the
\* injected badges are removed by the Cleanup action)
\* the properties cleanupTransforms writes back when a stored value exists
restoreStored(st, ds) ==
  [st EXCEPT
     !.borderLeft = IF ds.border # Undef THEN ds.border ELSE @,
     !.backgroundColor = IF ds.bg # Undef THEN ds.bg ELSE @,
     !.paddingLeft = IF ds.padding # Undef THEN ds.padding ELSE @,
     !.opacity = IF ds.opacity # Undef THEN ds.opacity ELSE @,
     !.pointerEvents = IF ds.pointerEvents # Undef THEN ds.pointerEvents ELSE @,
     !.fontSize = IF ds.fontSize # Undef THEN ds.fontSize ELSE @,
     !.lineHeight = IF ds.lineHeight # Undef THEN ds.lineHeight ELSE @]

\* the branch for an element that was collapsed
restoreCollapsed(st, ds) ==
  IF ds.maxHeight # Undef
  THEN [st EXCEPT !.maxHeight = ds.maxHeight,
                  !.overflow = IF ds.overflow # Undef THEN ds.overflow ELSE "",
                  !.display = "",
                  !.opacity = ""]
  ELSE st

restoreElement(d, el) ==
  [d EXCEPT !.style[el] = restoreCollapsed(restoreStored(@, d.ds[el]), d.ds[el]),
            !.ds[el] = NoData,
            !.marker[el] = NoId]

\* the data-pb-node stamps removed from every element the document holds
unstamp(d, seen) ==
  [d EXCEPT !.marker = [e \in Elems(d) |-> IF e \in seen THEN NoId ELSE @[e]]]

cleanupTransforms(d) ==
  unstamp(FoldSeq(restoreElement, [d EXCEPT !.badges = <<>>],
                  SelectSeq(DocOrder(d),
                            LAMBDA e : e # Body /\ (d.ds[e].transformed \/ d.ds[e].collapsed))),
          Range(DocOrder(d)))

\* ------------------------------------------------------------------------
\* transformer.ts: applyTransforms
\* ------------------------------------------------------------------------
positiveActions == {"reorder", "highlight", "annotate"}

\* the groups the other way round: what priority must not be
priorityInverted(a) == IF a.action \in positiveActions THEN 0 ELSE 1

priority(a) == IF a.action \in positiveActions THEN 1 ELSE 0

\* a comparator blind to the groups: what compareTransforms must not be
compareByRelevance(a, b) == b.relevance - a.relevance

\* the comparator handed to sort: negative when a goes before b
compareTransforms(a, b) ==
  IF priority(a) # priority(b) THEN priority(b) - priority(a)
  ELSE b.relevance - a.relevance

\* [...response.transforms].sort(compare), a stable sort; the result is given
\* as the EditSet positions in processing order
\* the position i goes to: before the first entry of acc that sorts behind it
sortInsert(transforms, acc, i) ==
  InsertAt(acc,
           FirstOr(SelectSeq(Indices(acc),
                             LAMBDA k : compareTransforms(transforms[acc[k]], transforms[i]) > 0),
                   Len(acc) + 1),
           i)

sortTransforms(transforms) ==
  FoldSeq(LAMBDA acc, i : sortInsert(transforms, acc, i), <<>>, [i \in 1..Len(transforms) |-> i])

\* One applyTransforms call.  pc: "storage" (suspended at the settings read),
\* "delay" (suspended at the stagger delay before acting on el), "done",
\* "rejected" (an exception left the function).  order and i are the sorted
\* list and the loop's position in it; log lists what the loop did with each
\* instruction it has finished.
NewPass(kind, transforms, withSkeleton, intent) ==
  [kind |-> kind, transforms |-> transforms, withSkeleton |-> withSkeleton,
   intent |-> intent, pc |-> "storage", removeGrayedSections |-> TRUE,
   framework |-> "vanilla", order |-> <<>>, i |-> 1, el |-> NoEl,
   found |-> 0, missed |-> 0, log |-> <<>>]

LogEntry(idx, el, outcome) == [idx |-> idx, el |-> el, outcome |-> outcome]

\* the for-loop of applyTransforms from position ps.i up to the next stagger
\* delay, the end of the list or an exception; flat is the flattened snapshot
\* the lookup maps were built from (empty without a snapshot)
\* why the loop goes on to the next instruction without acting on r.el
\* ("none": it does not)
skipReason(r) ==
  IF r.el = NoEl THEN "missed"
  ELSE IF r.d.ds[r.el].transformed THEN "applied"
  ELSE IF hasCollapsedAncestor(r.d, r.el) THEN "collapsed"
  ELSE "none"

skipped(ps, idx, el, reason) ==
  [ps EXCEPT !.i = @ + 1,
             !.missed = IF reason = "missed" THEN @ + 1 ELSE @,
             !.log = Append(@, LogEntry(idx, el, reason))]

RECURSIVE runLoop(_, _, _), loopStep(_, _, _, _)
runLoop(ps, d, flat) ==
  IF ps.i > Len(ps.order) THEN [ps |-> [ps EXCEPT !.pc = "done"], d |-> d]
  ELSE loopStep(ps, d, flat,
                findElement(d, ps.transforms[ps.order[ps.i]].selector, flat, ps.framework))

\* one iteration, r being what findElement returned
loopStep(ps, d, flat, r) ==
  IF r.thrown THEN [ps |-> [ps EXCEPT !.pc = "rejected"], d |-> d]
  ELSE IF skipReason(r) # "none"
  THEN runLoop(skipped(ps, ps.order[ps.i], r.el, skipReason(r)), r.d, flat)
  ELSE [ps |-> [ps EXCEPT !.pc = "delay", !.el = r.el], d |-> r.d]

\* a switch that never takes dim for collapse: what the switch must not be
executeActionDimOnly(d, el, instruction, removeGrayedSections) ==
  CASE instruction.action = "highlight" -> executeHighlight(d, el, instruction)
    [] instruction.action = "collapse" -> executeCollapse(d, el, instruction)
    [] instruction.action = "reorder" -> executeReorder(d, el, instruction)
    [] instruction.action = "dim" -> executeDim(d, el, instruction)
    [] OTHER -> Outcome(d, <<>>, <<>>)

\* the switch on instruction.action
executeAction(d, el, instruction, removeGrayedSections) ==
  CASE instruction.action = "highlight" -> executeHighlight(d, el, instruction)
    [] instruction.action = "collapse" -> executeCollapse(d, el, instruction)
    [] instruction.action = "reorder" -> executeReorder(d, el, instruction)
    [] instruction.action = "dim" ->
         IF removeGrayedSections THEN executeCollapse(d, el, instruction)
         ELSE executeDim(d, el, instruction)
    [] instruction.action = "annotate" -> Outcome(d, <<>>, <<>>)
    [] OTHER -> Outcome(d, <<>>, <<>>)

\* the loop body after the stagger delay: set the applied marker, act, count
\* the pass after the action has returned out (or raised)
acted(ps, out) ==
  IF out.thrown
  THEN [ps |-> [ps EXCEPT !.pc = "rejected", !.el = NoEl], out |-> out]
  ELSE [ps |-> [ps EXCEPT !.i = @ + 1, !.found = @ + 1, !.el = NoEl,
                          !.log = Append(@, LogEntry(ps.order[ps.i], ps.el, "executed"))],
        out |-> out]

afterDelay(ps, d) ==
  acted(ps, executeAction([d EXCEPT !.ds[ps.el].transformed = TRUE], ps.el,
                          ps.transforms[ps.order[ps.i]], ps.removeGrayedSections))

\* ------------------------------------------------------------------------
\* The page the content script runs in
\* ------------------------------------------------------------------------
\* body > div (1) > [ div (2) "hello world", p (3) "second para" ],
\* body > h1#title (4) "Page title", position: fixed.
\* The paragraph carries an inline opacity of its own.
LiveElems ==
  << PlainElem("div", <<>>),
     PlainElem("div", <<"h", "e", "l", "l", "o", " ", "w", "o", "r", "l", "d">>),
     [PlainElem("p", <<"s", "e", "c", "o", "n", "d", " ", "p", "a", "r", "a">>)
        EXCEPT !.inline = [NoStyle EXCEPT !.opacity = "0.9"]],
     [PlainElem("h1", <<"P", "a", "g", "e", " ", "t", "i", "t", "l", "e">>)
        EXCEPT !.idAttr = "title", !.pos = "fixed"] >>

LiveDoc ==
  MkDocument(LiveElems,
             [e \in 0..4 |-> CASE e = 0 -> <<1, 4>> [] e = 1 -> <<2, 3>> [] OTHER -> <<>>],
             [e \in 1..4 |-> IF e \in {2, 3} THEN 1 ELSE Body])

\* The fingerprints detectFramework looks for
Windows == {{}, {"__NEXT_DATA__"}}

\* TransformInstruction: position is "top", "above" (above:<psel>) or "none";
\* an annotate instruction comes with its label text
Edit(selector, action, relevance, position, psel) ==
  [selector |-> selector, action |-> action, relevance |-> relevance,
   position |-> position, psel |-> psel,
   annotation |-> IF action = "annotate" THEN "Key info" ELSE ""]

\* Instructions the reasoning collaborator may answer with: the snapshot's own
\* selectors, a marker no node carries, a selector it invented, a string that
\* is no selector
EditPool ==
  { Edit(MarkerSel(0), "highlight", 50, "none", EmptySel),
    Edit(MarkerSel(0), "annotate", 90, "none", EmptySel),
    Edit(MarkerSel(2), "collapse", 90, "none", EmptySel),
    Edit(MarkerSel(1), "reorder", 90, "top", EmptySel),
    Edit(MarkerSel(1), "dim", 50, "none", EmptySel),
    Edit(MarkerSel(3), "reorder", 50, "top", EmptySel),
    Edit(MarkerSel(1), "reorder", 90, "above", InvalidSel),
    Edit(MarkerSel(1), "reorder", 90, "above", MarkerSel(0)),
    Edit(MarkerSel(9), "highlight", 50, "none", EmptySel),
    Edit(TagSel("p"), "highlight", 90, "none", EmptySel),
    Edit(InvalidSel, "highlight", 50, "none", EmptySel) }

\* Instructions a LINK_PREVIEWS_READY message may carry: the annotate
\* instruction generateLinkPreviews builds, and another action (the listener
\* hands over whatever the message holds)
LinkEditPool ==
  { Edit(MarkerSel(0), "annotate", 80, "none", EmptySel),
    Edit(MarkerSel(0), "highlight", 50, "none", EmptySel) }

MaxEdits == 2
MaxLinkEdits == 1
MaxLinkMessages == 1
MaxCleanups == 1

SeqsUpTo(S, n) == UNION {[1..k -> S] : k \in 0..n}

\* A longer answer, with equal scores inside both groups
LongEditSets ==
  { << Edit(MarkerSel(1), "dim", 50, "none", EmptySel),
       Edit(MarkerSel(0), "highlight", 50, "none", EmptySel),
       Edit(MarkerSel(3), "collapse", 50, "none", EmptySel),
       Edit(MarkerSel(2), "annotate", 90, "none", EmptySel),
       Edit(MarkerSel(1), "reorder", 90, "top", EmptySel) >> }

Responses == SeqsUpTo(EditPool, MaxEdits) \cup LongEditSets

VARIABLES
  shape,      \* Snapshotter runs: the document extractSkeleton is given
  snap,       \* Snapshotter runs: what extractSkeleton returned
  dom,        \* the live document
  win,        \* the framework fingerprints of the window
  settings,   \* chrome.storage.local extensionSettings
  skeleton,   \* main's snapshot
  mainPc,     \* where main() stands
  passes,     \* the applyTransforms calls made so far
  timers,     \* pending setTimeout callbacks, soonest first, due relative to now
  frames,     \* pending requestAnimationFrame callbacks
  digest,     \* the digest panel is in the document
  signals,    \* the startSignalCollection call
  linkMsgs,   \* LINK_PREVIEWS_READY messages received
  cleanups,   \* cleanupTransforms calls made
  execs,      \* per element: actions executed on it since the last cleanup
  lastOp,     \* the step taken last
  wait,       \* Settle runs: the waitForDomStable call
  parsed,     \* Parser runs: the raw response and what parseResponse made of it
  worker      \* Worker runs: the service worker's settings cache and round trips

vars == <<shape, snap, dom, win, settings, skeleton, mainPc, passes, timers, frames,
          digest, signals, linkMsgs, cleanups, execs, lastOp, wait, parsed,
          worker>>

callVars == <<wait, parsed, worker>>

snapVars == <<shape, snap>>

liveVars == <<dom, win, settings, skeleton, mainPc, passes, timers, frames,
              digest, signals, linkMsgs, cleanups, execs, lastOp>>

NoShape == [ws |-> <<>>, mode |-> "none"]
NoSnap == [taken |-> FALSE, nodes |-> <<>>, marker |-> <<>>]
NoSkeleton == [taken |-> FALSE, nodes |-> <<>>]
NoSignals == [called |-> FALSE, transforms |-> <<>>]
NoWait == [now |-> 0, observing |-> FALSE, quiet |-> -1, hard |-> -1, resolvedAt |-> -1,
           lastMutation |-> 0]
NoParse == [called |-> FALSE]
NoWorker == [pc |-> "none"]

\* quiet: no callback was pending and no pass in progress when the step began
Op(op, quiet) == [op |-> op, quiet |-> quiet]

InProgress(ps) == ps.pc \in {"storage", "delay"}

Quiet == timers = <<>> /\ frames = <<>> /\ \A p \in 1..Len(passes) : ~InProgress(passes[p])

LiveInit ==
  /\ dom = LiveDoc
  /\ win \in Windows
  /\ settings \in [enabled : BOOLEAN, removeGrayedSections : BOOLEAN]
  /\ skeleton = NoSkeleton
  /\ mainPc = "start"
  /\ passes = <<>>
  /\ timers = <<>>
  /\ frames = <<>>
  /\ digest = FALSE
  /\ signals = NoSignals
  /\ linkMsgs = 0
  /\ cleanups = 0
  /\ execs = [e \in Elems(LiveDoc) |-> 0]
  /\ lastOp = Op("init", TRUE)

Init == LiveInit /\ shape = NoShape /\ snap = NoSnap /\ wait = NoWait /\ parsed = NoParse /\ worker = NoWorker

\* setTimeout(cb, ms): behind every pending callback that is due no later
addTimer(ts, t) ==
  InsertAt(ts, Cardinality({k \in 1..Len(ts) : ts[k].due <= t.due}) + 1, t)

addTimers(ts, new) == FoldSeq(addTimer, ts, new)

\* the head callback's time has come: the others are that much closer
elapse(ts) == [k \in 1..(Len(ts) - 1) |-> [ts[k + 1] EXCEPT !.due = @ - ts[1].due]]

\* the flattened snapshot an applyTransforms call builds its maps from
flatOf(ps) == IF ps.withSkeleton THEN walkNodes(skeleton.nodes) ELSE <<>>

\* main() after `await applyTransforms(...)`: startSignalCollection with all
\* transforms of the response, or with [] from the catch block
signalsAfter(ps) ==
  [called |-> TRUE,
   transforms |->
     IF ps.pc = "done"
     THEN [k \in 1..Len(ps.transforms) |->
             [selector |-> ps.transforms[k].selector, action |-> ps.transforms[k].action]]
     ELSE <<>>]

\* what a finished loop leaves behind: the digest panel, main's continuation
settle(ps) ==
  /\ digest' = (digest \/ (ps.pc = "done" /\ ps.found > 0 /\ ps.intent))
  /\ IF ps.kind = "main" /\ ~InProgress(ps)
     THEN mainPc' = "collecting" /\ signals' = signalsAfter(ps)
     ELSE UNCHANGED <<mainPc, signals>>

\* a loop run that stopped at ps: the stagger timer when it is suspended
withDelay(ts, p, ps) ==
  IF ps.pc = "delay"
  THEN addTimer(ts, [kind |-> "delay", el |-> ps.el, p |-> p, due |-> STAGGER_DELAY])
  ELSE ts

\* ------------------------------------------------------------------------
\* index.ts: main() and the LINK_PREVIEWS_READY listener
\* ------------------------------------------------------------------------
\* main() up to the settings check
MainStart ==
  /\ mainPc = "start"
  /\ mainPc' = IF settings.enabled THEN "settling" ELSE "disabled"
  /\ lastOp' = Op("start", Quiet)
  /\ UNCHANGED <<dom, win, settings, skeleton, passes, timers, frames, digest, signals,
                 linkMsgs, cleanups, execs>>
  /\ UNCHANGED snapVars
  /\ UNCHANGED callVars

\* main() from the settled document to the SKELETON_READY message
\* the snapshot r is taken: its stamps are on the document
\* a main that sends whatever snapshot it has: what the check must not be
sendsAnySkeleton(nodes) == "waiting"

\* main's check of the snapshot: an empty one ends main, any other is sent
skeletonChecked(nodes) == IF nodes = <<>> THEN "empty" ELSE "waiting"

SkeletonReady(r) ==
  /\ dom' = [dom EXCEPT !.marker = r.marker]
  /\ skeleton' = [taken |-> TRUE, nodes |-> r.nodes]
  /\ mainPc' = skeletonChecked(r.nodes)

MainExtract ==
  /\ mainPc = "settling"
  /\ SkeletonReady(extractSkeleton(dom))
  /\ lastOp' = Op("extract", Quiet)
  /\ UNCHANGED <<win, settings, passes, timers, frames, digest, signals, linkMsgs,
                 cleanups, execs>>
  /\ UNCHANGED snapVars
  /\ UNCHANGED callVars

\* the answer is TRANSFORMS_READY: main calls applyTransforms(response, skeleton)
\* (parseResponse leaves no response without an inferred intent)
MainResponse ==
  /\ mainPc = "waiting"
  /\ \E transforms \in Responses :
       passes' = Append(passes, NewPass("main", transforms, TRUE, TRUE))
  /\ mainPc' = "applying"
  /\ lastOp' = Op("response", Quiet)
  /\ UNCHANGED <<dom, win, settings, skeleton, timers, frames, digest, signals, linkMsgs,
                 cleanups, execs>>
  /\ UNCHANGED snapVars
  /\ UNCHANGED callVars

\* the answer is TRANSFORM_ERROR, or sendMessage rejected
MainError ==
  /\ mainPc = "waiting"
  /\ mainPc' = "collecting"
  /\ signals' = [called |-> TRUE, transforms |-> <<>>]
  /\ lastOp' = Op("error", Quiet)
  /\ UNCHANGED <<dom, win, settings, skeleton, passes, timers, frames, digest, linkMsgs,
                 cleanups, execs>>
  /\ UNCHANGED snapVars
  /\ UNCHANGED callVars

\* a LINK_PREVIEWS_READY message (the background sends it for a snapshot it
\* was given): applyTransforms without a snapshot and without an intent
LinkPreviews ==
  /\ skeleton.taken
  /\ linkMsgs < MaxLinkMessages
  /\ \E transforms \in SeqsUpTo(LinkEditPool, MaxLinkEdits) :
       passes' = Append(passes, NewPass("link", transforms, FALSE, FALSE))
  /\ linkMsgs' = linkMsgs + 1
  /\ lastOp' = Op("link", Quiet)
  /\ UNCHANGED <<dom, win, settings, skeleton, mainPc, timers, frames, digest, signals,
                 cleanups, execs>>
  /\ UNCHANGED snapVars
  /\ UNCHANGED callVars

\* applyTransforms from the settings read to the first stagger delay
\* the pass with the settings read, the framework detected and the list sorted
started(ps) ==
  [ps EXCEPT !.removeGrayedSections = settings.removeGrayedSections,
             !.framework = detectFramework(win),
             !.order = sortTransforms(ps.transforms)]

\* the loop of pass ps run on document d up to its next stop
loopFrom(ps, d) == runLoop(ps, d, flatOf(ps))

\* pass p has run up to r.ps and left the document r.d; ts are the timers
\* pending without its stagger delay
Suspend(p, r, ts) ==
  /\ dom' = r.d
  /\ passes' = [passes EXCEPT ![p] = r.ps]
  /\ timers' = withDelay(ts, p, r.ps)
  /\ settle(r.ps)

\* getSiteStyle in window w: the accent colour, or the exception of a
\* getComputedStyle call that raises
StyleRaises == "getComputedStyle raises"

getSiteStyle(w) == [thrown |-> StyleRaises \in w, accent |-> "accent"]

\* applyTransforms behind getSiteStyle: the exception leaves the function
\* before the loop, or the loop runs
styled(style, ps, d) ==
  IF style.thrown THEN [ps |-> [ps EXCEPT !.pc = "rejected"], d |-> d]
  ELSE loopFrom(ps, d)

PassStorage(p) ==
  /\ passes[p].pc = "storage"
  /\ Suspend(p, styled(getSiteStyle(win), started(passes[p]), dom), timers)
  /\ lastOp' = Op("storage", Quiet)
  /\ UNCHANGED <<win, settings, skeleton, frames, linkMsgs, cleanups, execs>>
  /\ UNCHANGED snapVars
  /\ UNCHANGED callVars

\* a stagger delay is over: the suspended pass acts on its element and goes on
\* to its next stagger delay
\* pass p resumes behind its stagger delay: a is what the loop body did to el
Resume(p, el, a) ==
  /\ Suspend(p,
             IF a.ps.pc = "rejected" THEN [ps |-> a.ps, d |-> a.out.d]
             ELSE loopFrom(a.ps, a.out.d),
             addTimers(elapse(timers), a.out.timeouts))
  /\ frames' = frames \o a.out.frames
  /\ execs' = IF a.out.thrown THEN execs ELSE [execs EXCEPT ![el] = @ + 1]

DelayElapsed ==
  /\ timers # <<>>
  /\ timers[1].kind = "delay"
  /\ Resume(timers[1].p, timers[1].el, afterDelay(passes[timers[1].p], dom))
  /\ lastOp' = Op("execute", Quiet)
  /\ UNCHANGED <<win, settings, skeleton, linkMsgs, cleanups>>
  /\ UNCHANGED snapVars
  /\ UNCHANGED callVars

\* the setTimeout callback of executeCollapse or executeReorder runs
TimeoutFire ==
  /\ timers # <<>>
  /\ timers[1].kind # "delay"
  /\ dom' = runTimeout(dom, timers[1])
  /\ timers' = elapse(timers)
  /\ lastOp' = Op("timeout", Quiet)
  /\ UNCHANGED <<win, settings, skeleton, mainPc, passes, frames, digest, signals,
                 linkMsgs, cleanups, execs>>
  /\ UNCHANGED snapVars
  /\ UNCHANGED callVars

\* an animation frame: every pending requestAnimationFrame callback runs
Frame ==
  /\ frames # <<>>
  /\ dom' = FoldSeq(runFrame, dom, frames)
  /\ frames' = <<>>
  /\ lastOp' = Op("frame", Quiet)
  /\ UNCHANGED <<win, settings, skeleton, mainPc, passes, timers, digest, signals,
                 linkMsgs, cleanups, execs>>
  /\ UNCHANGED snapVars
  /\ UNCHANGED callVars

\* the page's framework re-renders while the collaborator is working and drops
\* every data-pb-node attribute
Hydrate ==
  /\ mainPc = "waiting"
  /\ \E e \in Elems(dom) : dom.marker[e] # NoId
  /\ dom' = [dom EXCEPT !.marker = [e \in Elems(dom) |-> NoId]]
  /\ lastOp' = Op("hydrate", Quiet)
  /\ UNCHANGED <<win, settings, skeleton, mainPc, passes, timers, frames, digest, signals,
                 linkMsgs, cleanups, execs>>
  /\ UNCHANGED snapVars
  /\ UNCHANGED callVars

\* cleanupTransforms is called
Cleanup ==
  /\ skeleton.taken
  /\ cleanups < MaxCleanups
  /\ dom' = cleanupTransforms(dom)
  /\ digest' = FALSE
  /\ cleanups' = cleanups + 1
  /\ execs' = [e \in Elems(dom) |-> 0]
  /\ lastOp' = Op("cleanup", Quiet)
  /\ UNCHANGED <<win, settings, skeleton, mainPc, passes, timers, frames, signals, linkMsgs>>
  /\ UNCHANGED snapVars
  /\ UNCHANGED callVars

Next ==
  \/ MainStart
  \/ MainExtract
  \/ MainResponse
  \/ MainError
  \/ LinkPreviews
  \/ \E p \in 1..Len(passes) : PassStorage(p)
  \/ DelayElapsed
  \/ TimeoutFire
  \/ Frame
  \/ Hydrate
  \/ Cleanup

Spec == Init /\ [][Next]_vars

\* ------------------------------------------------------------------------
\* Locator runs: findElement called again and again on a page that
\* re-renders after the snapshot was taken
\* ------------------------------------------------------------------------
\* one window for each classification of detectFramework
LocateWindows ==
  {{}, {"__NEXT_DATA__"}, {"__nuxt"}, {"[ng-version]"}, {"[data-reactroot]"}}

\* the selectors findElement is called with
LocateSelectors == {t.selector : t \in EditPool}

\* the snapshot r of LiveDoc is taken: its stamps are on the document
InitLocate ==
  /\ shape = NoShape
  /\ snap = NoSnap
  /\ win \in LocateWindows
  /\ dom = [LiveDoc EXCEPT !.marker = extractSkeleton(LiveDoc).marker]
  /\ skeleton = [taken |-> TRUE, nodes |-> extractSkeleton(LiveDoc).nodes]
  /\ settings = [enabled |-> TRUE, removeGrayedSections |-> TRUE]
  /\ mainPc = "waiting"
  /\ passes = <<>>
  /\ timers = <<>>
  /\ frames = <<>>
  /\ digest = FALSE
  /\ signals = NoSignals
  /\ linkMsgs = 0
  /\ cleanups = 0
  /\ execs = [e \in Elems(LiveDoc) |-> 0]
  /\ lastOp = Op("init", TRUE)
  /\ wait = NoWait
  /\ parsed = NoParse /\ worker = NoWorker

\* what the findElement call before this one was given and returned
NoFind == [sel |-> EmptySel, el |-> NoEl, below |-> FALSE]

PrevFind(op) ==
  IF op.op = "find"
  THEN [sel |-> op.sel, el |-> op.el, below |-> op.t1 = NoEl /\ op.el # NoEl]
  ELSE NoFind

\* a findElement call: t1, t2, t3 are what the three tiers find on the
\* document as the call meets it, r is what the call returns
Located(sel, t1, t2, t3, r) ==
  /\ dom' = r.d
  /\ lastOp' = [op |-> "find", sel |-> sel, t1 |-> t1, t2 |-> t2, t3 |-> t3,
                el |-> r.el, thrown |-> r.thrown, prev |-> PrevFind(lastOp)]

Locate ==
  /\ \E sel \in LocateSelectors :
       Located(sel, querySelector(dom, sel),
               tier2(dom, fallbackMapGet(walkNodes(skeleton.nodes), sel)),
               tier3(dom, selectorMapGet(walkNodes(skeleton.nodes), sel)),
               findElement(dom, sel, walkNodes(skeleton.nodes), detectFramework(win)))
  /\ UNCHANGED <<win, settings, skeleton, mainPc, passes, timers, frames, digest, signals,
                 linkMsgs, cleanups, execs>>
  /\ UNCHANGED snapVars
  /\ UNCHANGED callVars

\* the page's framework re-renders a list: element e becomes the first child
\* of its parent
Restructure ==
  /\ \E e \in Elems(dom) :
       /\ dom.kids[dom.parent[e]][1] # e
       /\ dom' = insertBefore(dom, dom.parent[e], e, dom.kids[dom.parent[e]][1])
  /\ lastOp' = Op("restructure", TRUE)
  /\ UNCHANGED <<win, settings, skeleton, mainPc, passes, timers, frames, digest, signals,
                 linkMsgs, cleanups, execs>>
  /\ UNCHANGED snapVars
  /\ UNCHANGED callVars

NextLocate ==
  \/ Locate
  \/ Hydrate
  \/ Restructure

SpecLocate == InitLocate /\ [][NextLocate]_vars

\* ------------------------------------------------------------------------
\* Snapshotter runs: extractSkeleton on layered documents
\* ------------------------------------------------------------------------
Widths == {1, 5, 31, 32}
MaxLevels == 8
MaxDocNodes == 161
Modes == {"distinct", "same", "shadow"}

\* whether the first L levels of ws hold at most MaxDocNodes elements
RECURSIVE Fits(_, _)
Fits(ws, L) ==
  L = 0 \/ (Fits(ws, L - 1) /\ LevelOffset(ws, L) + LevelCount(ws, L - 1) * ws[L] <= MaxDocNodes)

Shapes == {ws \in SeqsUpTo(Widths, MaxLevels) : Len(ws) >= 1 /\ Fits(ws, Len(ws))}

InitExtract ==
  /\ shape \in [ws : Shapes, mode : Modes]
  /\ snap = NoSnap
  /\ dom = LiveDoc
  /\ win = {}
  /\ settings = [enabled |-> TRUE, removeGrayedSections |-> TRUE]
  /\ skeleton = NoSkeleton
  /\ mainPc = "start"
  /\ passes = <<>>
  /\ timers = <<>>
  /\ frames = <<>>
  /\ digest = FALSE
  /\ signals = NoSignals
  /\ linkMsgs = 0
  /\ cleanups = 0
  /\ execs = [e \in Elems(LiveDoc) |-> 0]
  /\ lastOp = Op("init", TRUE)
  /\ wait = NoWait
  /\ parsed = NoParse /\ worker = NoWorker

Snap(r) == [taken |-> TRUE, nodes |-> r.nodes, marker |-> r.marker]

Extract ==
  /\ ~snap.taken
  /\ snap' = Snap(extractSkeleton(LayeredDoc(shape.ws, shape.mode)))
  /\ UNCHANGED shape
  /\ UNCHANGED liveVars
  /\ UNCHANGED callVars

\* cleanupTransforms is called on the document the snapshot was taken of
\* (stamped as extractSkeleton left it)
ExtractCleanup ==
  /\ snap.taken
  /\ cleanups < MaxCleanups
  /\ dom' = cleanupTransforms([LayeredDoc(shape.ws, shape.mode) EXCEPT !.marker = snap.marker])
  /\ digest' = FALSE
  /\ cleanups' = cleanups + 1
  /\ lastOp' = Op("cleanup", TRUE)
  /\ UNCHANGED <<win, settings, skeleton, mainPc, passes, timers, frames, signals, linkMsgs,
                 execs>>
  /\ UNCHANGED snapVars
  /\ UNCHANGED callVars

NextExtract ==
  \/ Extract
  \/ ExtractCleanup

SpecExtract == InitExtract /\ [][NextExtract]_vars

\* ------------------------------------------------------------------------
\* Settle runs: index.ts waitForDomStable on a document that mutates
\* ------------------------------------------------------------------------
QUIET_MS == 1000
HARD_CAP_MS == 6000

\* mutations happen TimeStep apart or at the same instant; the clock stops at
\* MaxClock
TimeStep == 250
MaxClock == 7000

\* the page while main() awaits waitForDomStable: nothing else has happened
Parked ==
  /\ shape = NoShape
  /\ snap = NoSnap
  /\ dom = LiveDoc
  /\ win = {}
  /\ settings = [enabled |-> TRUE, removeGrayedSections |-> TRUE]
  /\ skeleton = NoSkeleton
  /\ passes = <<>>
  /\ timers = <<>>
  /\ frames = <<>>
  /\ digest = FALSE
  /\ signals = NoSignals
  /\ linkMsgs = 0
  /\ cleanups = 0
  /\ execs = [e \in Elems(LiveDoc) |-> 0]
  /\ lastOp = Op("init", TRUE)

\* waitForDomStable has run its executor: the observer is connected, the
\* initial timeout and the hard cap are set.  quiet and hard are the times
\* left on the two timeouts, -1 for one that is cleared or has fired.
InitSettle ==
  /\ Parked
  /\ mainPc = "settling"
  /\ parsed = NoParse /\ worker = NoWorker
  /\ wait = [now |-> 0, observing |-> TRUE, quiet |-> QUIET_MS, hard |-> HARD_CAP_MS,
             resolvedAt |-> -1, lastMutation |-> 0]

\* resolve(): the promise keeps its first resolution
resolve(w) == [w EXCEPT !.resolvedAt = IF @ = -1 THEN w.now ELSE @]

\* a callback that leaves the pending timeout alone: what mutationCallback
\* must not be
mutationKeepsTimeout(w) == [w EXCEPT !.lastMutation = w.now]

\* the MutationObserver callback: clearTimeout, then a new quiet timeout
mutationCallback(w) == [w EXCEPT !.quiet = QUIET_MS, !.lastMutation = w.now]

\* the callback of the quiet timeout (the initial one or one set by the
\* observer): observer.disconnect(); resolve()
quietCallback(w) == resolve([w EXCEPT !.quiet = -1, !.observing = FALSE])

\* a hard cap that never comes: what hardCapCallback must not be
hardCapNever(w) == [w EXCEPT !.hard = -1]

\* the callback of the hard cap: observer.disconnect(); resolve()
hardCapCallback(w) == resolve([w EXCEPT !.hard = -1, !.observing = FALSE])

\* the time to the next thing that can happen
untilNext(w) ==
  Min(TimeStep, Min(IF w.quiet = -1 THEN TimeStep ELSE w.quiet,
                    IF w.hard = -1 THEN TimeStep ELSE w.hard))

elapsed(w, ms) ==
  [w EXCEPT !.now = @ + ms,
            !.quiet = IF @ = -1 THEN -1 ELSE @ - ms,
            !.hard = IF @ = -1 THEN -1 ELSE @ - ms]

settleStep(w) ==
  /\ wait' = w
  /\ UNCHANGED <<shape, snap, dom, win, settings, skeleton, mainPc, passes, timers, frames,
                 digest, signals, linkMsgs, cleanups, execs, lastOp, parsed, worker>>

\* a child list under body changes while the observer is connected
DomMutation == wait.observing /\ settleStep(mutationCallback(wait))

QuietTimeout == wait.quiet = 0 /\ settleStep(quietCallback(wait))

HardCapTimeout == wait.hard = 0 /\ settleStep(hardCapCallback(wait))

\* time passes while no timeout is due
TimePasses ==
  /\ wait.quiet # 0
  /\ wait.hard # 0
  /\ wait.now < MaxClock
  /\ settleStep(elapsed(wait, untilNext(wait)))

NextSettle ==
  \/ DomMutation
  \/ QuietTimeout
  \/ HardCapTimeout
  \/ TimePasses

\* the event loop runs a timeout that is due, and time does not stand still
SpecSettle ==
  /\ InitSettle
  /\ [][NextSettle]_vars
  /\ WF_vars(QuietTimeout)
  /\ WF_vars(HardCapTimeout)
  /\ WF_vars(TimePasses)

\* ------------------------------------------------------------------------
\* Parser runs: llm-engine.ts parseResponse, and the page applying its result
\* ------------------------------------------------------------------------
\* JSON values as parseResponse looks at them: the typeof (t), a string's text
\* (s; sel when the text is a selector), a number's value (n)
JUndef == [t |-> "undefined", s |-> "", n |-> 0, sel |-> EmptySel]
JNum(n) == [t |-> "number", s |-> "", n |-> n, sel |-> EmptySel]
JStr(s) == [t |-> "string", s |-> s, n |-> 0, sel |-> EmptySel]
JSel(sel) == [t |-> "string", s |-> "", n |-> 0, sel |-> sel]

\* .length > 0 of a string value
NonEmpty(v) == v.s # "" \/ v.sel # EmptySel

\* an entry of the transforms array: kind is what it is (an object, an array,
\* null, a number, a string); the fields of anything but an object are
\* undefined
Entry(kind, action, selector, relevance) ==
  [kind |-> kind, action |-> action, selector |-> selector, relevance |-> relevance]

NoFields(kind) == Entry(kind, JUndef, JUndef, JUndef)

EntryPool ==
  { Entry("object", JStr("highlight"), JSel(MarkerSel(0)), JNum(50)),
    Entry("object", JStr("collapse"), JSel(MarkerSel(1)), JNum(90)),
    Entry("object", JStr("highlight"), JSel(MarkerSel(0)), JNum(150)),
    Entry("object", JStr("collapse"), JSel(MarkerSel(1)), JNum(-5)),
    Entry("object", JStr("highlight"), JSel(MarkerSel(0)), JStr("high")),
    Entry("object", JStr("highlight"), JSel(MarkerSel(0)), JUndef),
    Entry("object", JStr("highlight"), JStr(""), JNum(50)),
    Entry("object", JStr("highlight"), JNum(7), JNum(50)),
    Entry("object", JStr("remove"), JSel(MarkerSel(0)), JNum(50)),
    Entry("object", JUndef, JSel(MarkerSel(0)), JNum(50)),
    NoFields("object"), NoFields("array"), NoFields("null"), NoFields("number"),
    NoFields("string") }

\* the cap of parseResponse and the array lengths around it
TRANSFORM_CAP == 25
MaxShort == 2
PadLengths == {TRANSFORM_CAP - 1, TRANSFORM_CAP, TRANSFORM_CAP + 1}

\* n well-formed entries that differ in their relevance
Padding(n) ==
  [i \in 1..n |-> Entry("object", JStr(IF i % 2 = 0 THEN "highlight" ELSE "dim"),
                        JSel(MarkerSel(i % 4)), JNum(i))]

TransformArrays ==
  SeqsUpTo(EntryPool, MaxShort)
    \cup {pre \o Padding(n) \o post :
            pre \in SeqsUpTo(EntryPool, 1), n \in PadLengths, post \in SeqsUpTo(EntryPool, 1)}

\* the value JSON.parse returns: kind is what it is; for an object, the
\* typeof of its transforms property (tt: "array" for an array) with the
\* property's truthiness (truthy) and entries, its summary and inferredIntent
Root(kind, tt, truthy, entries, meta) ==
  [kind |-> kind, tt |-> tt, truthy |-> truthy, entries |-> entries,
   summary |-> meta, inferredIntent |-> meta]

Roots ==
  {Root("object", "array", TRUE, es, JUndef) : es \in TransformArrays}
    \cup {Root("object", "array", TRUE, es, JStr("text")) : es \in SeqsUpTo(EntryPool, 1)}
    \cup {Root("object", tt, FALSE, <<>>, JUndef) : tt \in {"undefined", "null", "number", "string"}}
    \cup {Root("object", tt, TRUE, <<>>, JUndef) : tt \in {"number", "string", "object"}}
    \cup {Root(kind, "undefined", FALSE, <<>>, JUndef) :
            kind \in {"null", "number", "string", "boolean", "array"}}

\* the raw answer: wrapped in a markdown code fence or not; text is "json" for
\* the serialisation of root, or what the answer is instead (nothing, prose, a
\* JSON text that was cut off)
Raw(fenced, text, root) == [fenced |-> fenced, text |-> text, root |-> root]

RawResponses ==
  {Raw(fenced, "json", root) : fenced \in BOOLEAN, root \in Roots}
    \cup {Raw(fenced, text, Root("null", "undefined", FALSE, <<>>, JUndef)) :
            fenced \in BOOLEAN, text \in {"empty", "prose", "cut"}}

AllActions == <<"highlight", "collapse", "reorder", "annotate", "dim">>

EnabledSets == {Range(AllActions), {"highlight"}, {}}

\* the two replace calls and trim(): the text between the fences
cleaned(raw) == [raw EXCEPT !.fenced = FALSE]

\* what the try block does not get past: JSON.parse throws, property access
\* on null throws, or the structure check throws
throwsInTry(raw) ==
  \/ raw.text # "json"
  \/ raw.root.kind = "null"
  \/ ~(raw.root.kind = "object" /\ raw.root.truthy /\ raw.root.tt = "array")

\* a filter that takes any relevance: what validTransform must not be
validAnyRelevance(t, enabledActions) ==
  /\ t.kind \in {"object", "array"}
  /\ t.action.t = "string" /\ t.action.s \in enabledActions
  /\ t.selector.t = "string"
  /\ NonEmpty(t.selector)

\* the filter callback
validTransform(t, enabledActions) ==
  /\ t.kind \in {"object", "array"}
  /\ t.action.t = "string" /\ t.action.s \in enabledActions
  /\ t.selector.t = "string"
  /\ NonEmpty(t.selector)
  /\ t.relevance.t = "number"

TransformResponse(transforms, summary, inferredIntent) ==
  [transforms |-> transforms, summary |-> summary, inferredIntent |-> inferredIntent,
   thrown |-> FALSE]

\* a parser that lets the exception out: what the catch block must not be
rethrown(raw) == [TransformResponse(<<>>, "", "") EXCEPT !.thrown = TRUE]

\* the catch block
caught(raw) == TransformResponse(<<>>, "Could not optimize this page.", "Unknown")

textOr(v, default) == IF v.t = "string" /\ NonEmpty(v) THEN v.s ELSE default

\* the return statement of the try block
validated(root, enabledActions) ==
  TransformResponse(
    Take(SelectSeq(root.entries, LAMBDA t : validTransform(t, enabledActions)), TRANSFORM_CAP),
    textOr(root.summary, "Page reshaped based on your interests."),
    textOr(root.inferredIntent, "General browsing"))

\* st are the extension settings getSettings returns
parseResponse(raw, st) ==
  IF throwsInTry(cleaned(raw)) THEN caught(raw)
  ELSE validated(cleaned(raw).root,
                 Range(SelectSeq(AllActions, LAMBDA a : a \in st.enabledActions)))

\* a valid entry as the TransformInstruction the content script reads
toInstruction(t) ==
  Edit(IF t.selector.sel # EmptySel THEN t.selector.sel ELSE TagSel(t.selector.s),
       t.action.s, t.relevance.n, "none", EmptySel)

\* what storage holds: the switch off with each enabled set, and the
\* popup's default (no removeGrayedSections stored, read as true) with
\* remove alone disabled
ParseSettings ==
  [enabled : {TRUE}, removeGrayedSections : {FALSE}, enabledActions : EnabledSets]
    \cup {[enabled |-> TRUE, removeGrayedSections |-> TRUE,
           enabledActions |-> Range(AllActions) \ {"collapse"}]}

\* the page has sent its snapshot and waits for the answer
InitParse ==
  /\ shape = NoShape
  /\ snap = NoSnap
  /\ win = {}
  /\ dom = [LiveDoc EXCEPT !.marker = extractSkeleton(LiveDoc).marker]
  /\ skeleton = [taken |-> TRUE, nodes |-> extractSkeleton(LiveDoc).nodes]
  /\ settings \in ParseSettings
  /\ mainPc = "waiting"
  /\ passes = <<>>
  /\ timers = <<>>
  /\ frames = <<>>
  /\ digest = FALSE
  /\ signals = NoSignals
  /\ linkMsgs = 0
  /\ cleanups = 0
  /\ execs = [e \in Elems(LiveDoc) |-> 0]
  /\ lastOp = Op("init", TRUE)
  /\ wait = NoWait
  /\ parsed = NoParse /\ worker = NoWorker

\* generateTransforms: the collaborator has answered raw
ParseResponse ==
  /\ ~parsed.called
  /\ \E raw \in RawResponses :
       parsed' = [called |-> TRUE, raw |-> raw, result |-> parseResponse(raw, settings)]
  /\ lastOp' = Op("parse", Quiet)
  /\ UNCHANGED <<shape, snap, dom, win, settings, skeleton, mainPc, passes, timers, frames,
                 digest, signals, linkMsgs, cleanups, execs, wait, worker>>

\* the service worker answers TRANSFORMS_READY with the parsed response and
\* main calls applyTransforms with it
Deliver ==
  /\ parsed.called
  /\ ~parsed.result.thrown
  /\ mainPc = "waiting"
  /\ passes' = Append(passes,
                      NewPass("main",
                              [k \in 1..Len(parsed.result.transforms) |->
                                 toInstruction(parsed.result.transforms[k])],
                              TRUE, TRUE))
  /\ mainPc' = "applying"
  /\ lastOp' = Op("response", Quiet)
  /\ UNCHANGED <<shape, snap, dom, win, settings, skeleton, timers, frames, digest, signals,
                 linkMsgs, cleanups, execs, wait, parsed, worker>>

NextParse ==
  \/ ParseResponse
  \/ Deliver
  \/ \E p \in 1..Len(passes) : PassStorage(p)
  \/ DelayElapsed
  \/ TimeoutFire
  \/ Frame

SpecParse == InitParse /\ [][NextParse]_vars

\* ------------------------------------------------------------------------
\* Worker runs: service-worker.ts handleSkeleton and llm-engine.ts
\* generateTransforms over one service-worker lifetime, the popup saving
\* settings in between, and each page handling the answer to its snapshot
\* ------------------------------------------------------------------------
MaxTrips == 2
MaxSaves == 2

\* cachedSettings before the first getSettings call
NoSettings == [set |-> FALSE, apiKey |-> FALSE, enabledActions |-> {}]

\* getSettings: the cache when there is one, else what storage holds merged
\* over the defaults (apiKey: the key is not the empty string)
getSettings(cachedSettings, stored) ==
  IF cachedSettings.set THEN cachedSettings
  ELSE [set |-> TRUE, apiKey |-> stored.apiKey, enabledActions |-> stored.enabledActions]

\* the onMessage listener of the service worker given SETTINGS_UPDATED: no
\* branch takes the message, the listener returns false
settingsUpdated(cachedSettings) == cachedSettings

\* what the popup saves: the object it builds holds no removeGrayedSections,
\* which applyTransforms reads as true
SavedSettings ==
  {[enabled |-> TRUE, removeGrayedSections |-> TRUE, enabledActions |-> ea, apiKey |-> k] :
     ea \in EnabledSets, k \in BOOLEAN}

WorkerEdits ==
  << Entry("object", JStr("highlight"), JSel(MarkerSel(0)), JNum(50)),
     Entry("object", JStr("collapse"), JSel(MarkerSel(1)), JNum(90)) >>

WorkerRaws ==
  { Raw(FALSE, "json", Root("object", "array", TRUE, WorkerEdits, JStr("text"))),
    Raw(TRUE, "json", Root("object", "array", TRUE, Tail(WorkerEdits), JStr("text"))),
    Raw(FALSE, "prose", Root("null", "undefined", FALSE, <<>>, JUndef)) }

\* how the fetch of callGemini ends: it rejects, or resolves with a status
\* that is not OK, or with an OK status; body is the text of the first candidate
FetchOutcome(kind, body) == [kind |-> kind, body |-> body]

FetchOutcomes == {FetchOutcome(kind, body) : kind \in {"rejects", "notok", "ok"}, body \in WorkerRaws}

Thrown == [TransformResponse(<<>>, "", "") EXCEPT !.thrown = TRUE]

\* a callGemini that hands on whatever body came back: what it must not be
okAnyStatus(outcome) == [thrown |-> FALSE, text |-> outcome.body]

\* callGemini behind its fetch: the text it returns, or its throw
fetched(outcome) == [thrown |-> outcome.kind # "ok", text |-> outcome.body]

\* generateTransforms behind callGemini: parseResponse's result, or the throw
generated(r, st) == IF r.thrown THEN Thrown ELSE parseResponse(r.text, st)

\* handleSkeleton's sendResponse: TRANSFORMS_READY with the response, or
\* TRANSFORM_ERROR from the catch block
answer(g) ==
  [type |-> IF g.thrown THEN "TRANSFORM_ERROR" ELSE "TRANSFORMS_READY", payload |-> g]

\* main() behind sendMessage: applyTransforms with the payload, or
\* startSignalCollection([])
MainHandles(message) ==
  IF message.type = "TRANSFORMS_READY"
  THEN /\ passes' = Append(passes,
                           NewPass("main",
                                   [k \in 1..Len(message.payload.transforms) |->
                                      toInstruction(message.payload.transforms[k])],
                                   TRUE, TRUE))
       /\ mainPc' = "applying"
       /\ UNCHANGED signals
  ELSE /\ mainPc' = "collecting"
       /\ signals' = [called |-> TRUE, transforms |-> <<>>]
       /\ UNCHANGED passes

NoTrip == [failed |-> FALSE, message |-> "none", parsedWith |-> {}, accepted |-> <<>>]

\* a round trip ends with message: failed tells that the request to the
\* collaborator had failed, parsedWith the action types enabled in storage
\* when parseResponse ran
Answered(st, failed, message) ==
  /\ worker' = [worker EXCEPT !.pc = "idle", !.cachedSettings = st, !.trips = @ + 1,
                              !.trip = [failed |-> failed, message |-> message.type,
                                        parsedWith |-> settings.enabledActions,
                                        accepted |-> message.payload.transforms]]
  /\ MainHandles(message)

\* the document of a page that has sent SKELETON_READY
SentDoc == [LiveDoc EXCEPT !.marker = extractSkeleton(LiveDoc).marker]

\* a page with nothing to see: the body holds one hidden block
BlankDoc ==
  MkDocument(<<[PlainElem("div", <<"a", "d">>) EXCEPT !.hidden = TRUE]>>,
             [e \in 0..1 |-> IF e = 0 THEN <<1>> ELSE <<>>],
             [e \in 1..1 |-> Body])

Pages == {LiveDoc, BlankDoc}

\* the windows of the pages: in one of them computing a style raises
PageWindows == {{}, {StyleRaises}}

\* the service worker has started, no page has been loaded
InitWorker ==
  /\ shape = NoShape
  /\ snap = NoSnap
  /\ win = {}
  /\ settings \in SavedSettings
  /\ dom = LiveDoc
  /\ skeleton = NoSkeleton
  /\ mainPc = "start"
  /\ passes = <<>>
  /\ timers = <<>>
  /\ frames = <<>>
  /\ digest = FALSE
  /\ signals = NoSignals
  /\ execs = [e \in Elems(LiveDoc) |-> 0]
  /\ linkMsgs = 0
  /\ cleanups = 0
  /\ lastOp = Op("init", TRUE)
  /\ wait = NoWait
  /\ parsed = NoParse
  /\ worker = [pc |-> "idle", cachedSettings |-> NoSettings, trips |-> 0, saves |-> 0,
               sent |-> 0, trip |-> NoTrip]

\* handleSkeleton up to the fetch of callGemini: buildPrompt reads the settings,
\* callGemini throws when there is no API key
KeyChecked(st) ==
  IF st.apiKey
  THEN /\ worker' = [worker EXCEPT !.pc = "fetching", !.cachedSettings = st]
       /\ UNCHANGED <<mainPc, passes, signals>>
  ELSE Answered(st, TRUE, answer(Thrown))

HandleSkeleton ==
  /\ worker.pc = "arrived"
  /\ KeyChecked(getSettings(worker.cachedSettings, settings))
  /\ lastOp' = Op("skeleton", Quiet)
  /\ UNCHANGED <<shape, snap, dom, win, settings, skeleton, timers, frames, digest,
                 linkMsgs, cleanups, execs, wait, parsed>>

\* handleSkeleton from the end of the fetch to sendResponse, and main() taking
\* the answer
FetchSettles ==
  /\ worker.pc = "fetching"
  /\ \E outcome \in FetchOutcomes :
       Answered(worker.cachedSettings, outcome.kind # "ok",
                answer(generated(fetched(outcome),
                                 getSettings(worker.cachedSettings, settings))))
  /\ lastOp' = Op("answer", Quiet)
  /\ UNCHANGED <<shape, snap, dom, win, settings, skeleton, timers, frames, digest,
                 linkMsgs, cleanups, execs, wait, parsed>>

\* the click handler of saveSettingsBtn: storage is written and
\* SETTINGS_UPDATED is sent to the service worker
SaveSettings ==
  /\ worker.saves < MaxSaves
  /\ \E st \in SavedSettings : st # settings /\ settings' = st
  /\ worker' = [worker EXCEPT !.saves = @ + 1,
                              !.cachedSettings = settingsUpdated(@)]
  /\ lastOp' = Op("save", Quiet)
  /\ UNCHANGED <<shape, snap, dom, win, skeleton, mainPc, passes, timers, frames, digest,
                 signals, linkMsgs, cleanups, execs, wait, parsed>>

\* main() on a page up to the SKELETON_READY message: r is the snapshot
\* extractSkeleton took of the page; sent counts the messages sent
Loaded(page, r) ==
  /\ dom' = [page EXCEPT !.marker = r.marker]
  /\ skeleton' = [taken |-> TRUE, nodes |-> r.nodes]
  /\ mainPc' = skeletonChecked(r.nodes)
  /\ execs' = [e \in Elems(page) |-> 0]
  /\ worker' = IF skeletonChecked(r.nodes) = "waiting"
                THEN [worker EXCEPT !.pc = "arrived", !.sent = @ + 1, !.trip = NoTrip]
                ELSE [worker EXCEPT !.trip = NoTrip]

\* the next page is loaded and has settled: main() runs on it
Navigate ==
  /\ worker.pc = "idle"
  /\ worker.trips < MaxTrips
  /\ mainPc \in {"start", "collecting", "empty"}
  /\ settings.enabled
  /\ \E page \in Pages : Loaded(page, extractSkeleton(page))
  /\ win' \in PageWindows
  /\ passes' = <<>>
  /\ timers' = <<>>
  /\ frames' = <<>>
  /\ digest' = FALSE
  /\ signals' = NoSignals
  /\ lastOp' = Op("navigate", Quiet)
  /\ UNCHANGED <<shape, snap, settings, linkMsgs, cleanups, wait, parsed>>

NextWorker ==
  \/ HandleSkeleton
  \/ FetchSettles
  \/ SaveSettings
  \/ Navigate
  \/ \E p \in 1..Len(passes) : PassStorage(p)
  \/ DelayElapsed
  \/ TimeoutFire
  \/ Frame

SpecWorker == InitWorker /\ [][NextWorker]_vars

\* ------------------------------------------------------------------------
\* Excerpt runs: extractor.ts getTextPreview called on an element
\* ------------------------------------------------------------------------
MaxTail == 3
PreviewPads == {0, TEXT_PREVIEW_LENGTH - 2, TEXT_PREVIEW_LENGTH - 1, TEXT_PREVIEW_LENGTH}

\* n letters
Letters(n) == [i \in 1..n |-> "x"]

\* texts around the cap: whitespace in front, letters, then a short tail of
\* letters, spaces and line breaks
PreviewTexts ==
  {lead \o Letters(n) \o tail :
     lead \in {<<>>, <<" ">>}, n \in PreviewPads, tail \in SeqsUpTo({"a", " ", "\n"}, MaxTail)}

\* the elements getTextPreview is given: a paragraph with a text, or an image
\* (by tag or by role) with an alt attribute
PreviewElems ==
  {PlainElem("p", text) : text \in PreviewTexts}
    \cup {[PlainElem("img", <<>>) EXCEPT !.alt = text] : text \in PreviewTexts}
    \cup {[PlainElem("div", <<"a">>) EXCEPT !.alt = text, !.role = "img"] : text \in PreviewTexts}

\* the document that holds elem alone
PreviewDoc(elem) ==
  MkDocument(<<elem>>, [e \in 0..1 |-> IF e = 0 THEN <<1>> ELSE <<>>], [e \in 1..1 |-> Body])

InitPreview ==
  /\ shape = NoShape
  /\ snap = NoSnap
  /\ dom = LiveDoc
  /\ win = {}
  /\ settings = [enabled |-> TRUE, removeGrayedSections |-> TRUE]
  /\ skeleton = NoSkeleton
  /\ mainPc = "start"
  /\ passes = <<>>
  /\ timers = <<>>
  /\ frames = <<>>
  /\ digest = FALSE
  /\ signals = NoSignals
  /\ linkMsgs = 0
  /\ cleanups = 0
  /\ execs = [e \in Elems(LiveDoc) |-> 0]
  /\ lastOp = Op("init", TRUE)
  /\ wait = NoWait
  /\ parsed = NoParse /\ worker = NoWorker

\* getTextPreview(el) is called and returns
Preview ==
  /\ lastOp.op = "init"
  /\ \E elem \in PreviewElems :
       lastOp' = [op |-> "preview", quiet |-> TRUE, el |-> elem,
                  result |-> getTextPreview(PreviewDoc(elem), 1)]
  /\ UNCHANGED <<dom, win, settings, skeleton, mainPc, passes, timers, frames, digest,
                 signals, linkMsgs, cleanups, execs>>
  /\ UNCHANGED snapVars
  /\ UNCHANGED callVars

NextPreview == Preview

SpecPreview == InitPreview /\ [][NextPreview]_vars

\* ------------------------------------------------------------------------
\* deduplicateSiblings on lists of sibling nodes
\* ------------------------------------------------------------------------
MaxSiblings == 3

\* two excerpts longer than PREFIX_LEN that differ only behind the prefix
LongTextY == [i \in 1..PREFIX_LEN |-> "a"] \o <<"y">>
LongTextZ == [i \in 1..PREFIX_LEN |-> "a"] \o <<"z">>

SiblingTexts == {<<"a">>, <<"a", "b">>, <<"a", "b", "c">>, <<"b">>, LongTextY, LongTextZ}

\* what walkDOM can push: a childless node has an excerpt, a node with
\* children may have none
SiblingShapes ==
  [type : {"text", "link"}, text : SiblingTexts, kids : {FALSE}]
  \cup [type : {"text", "link"}, text : {<<>>, <<"a", "b">>}, kids : {TRUE}]

\* the nodes walkDOM pushed for the shapes, with consecutive ids
SiblingNodes(shapes) ==
  [i \in 1..Len(shapes) |->
     SkeletonNode(2 * i, MarkerSel(2 * i), EmptySel, shapes[i].type, shapes[i].text, "div",
                  IF shapes[i].kids
                  THEN <<SkeletonNode(2 * i - 1, MarkerSel(2 * i - 1), EmptySel, "text",
                                      <<"k">>, "p", <<>>, NoEl)>>
                  ELSE <<>>,
                  NoEl)]

SiblingLists == UNION {[1..n -> SiblingShapes] : n \in 0..MaxSiblings}

InitDedup ==
  /\ shape = NoShape
  /\ snap = NoSnap
  /\ dom = LiveDoc
  /\ win = {}
  /\ settings = [enabled |-> TRUE, removeGrayedSections |-> TRUE]
  /\ skeleton = NoSkeleton
  /\ mainPc = "start"
  /\ passes = <<>>
  /\ timers = <<>>
  /\ frames = <<>>
  /\ digest = FALSE
  /\ signals = NoSignals
  /\ linkMsgs = 0
  /\ cleanups = 0
  /\ execs = [e \in Elems(LiveDoc) |-> 0]
  /\ \E shapes \in SiblingLists :
       lastOp = [op |-> "siblings", quiet |-> TRUE, nodes |-> SiblingNodes(shapes), result |-> <<>>]
  /\ wait = NoWait
  /\ parsed = NoParse /\ worker = NoWorker

\* deduplicateSiblings(nodes) is called and returns
Dedup ==
  /\ lastOp.op = "siblings"
  /\ lastOp' = [lastOp EXCEPT !.op = "dedup", !.result = deduplicateSiblings(lastOp.nodes)]
  /\ UNCHANGED <<dom, win, settings, skeleton, mainPc, passes, timers, frames, digest,
                 signals, linkMsgs, cleanups, execs>>
  /\ UNCHANGED snapVars
  /\ UNCHANGED callVars

NextDedup == Dedup

SpecDedup == InitDedup /\ [][NextDedup]_vars

\* ------------------------------------------------------------------------
\* Properties
\* ------------------------------------------------------------------------
\* C1: the snapshot extractSkeleton returns holds at most MAX_NODES nodes,
\* counting every node of the emitted tree at every level, real and synthetic.
C1_NodeBudget == snap.taken => countNodes(snap.nodes) <= MAX_NODES

\* the live document differs from the document the snapshot was taken of in
\* nothing but the data-pb-node attributes, and none of those is left
OnlyMarkersStripped ==
  /\ skeleton.taken
  /\ \A e \in Elems(dom) : dom.marker[e] = NoId
  /\ dom.kids = LiveDoc.kids /\ dom.style = LiveDoc.style /\ dom.ds = LiveDoc.ds

\* C2: once every data-pb-node attribute is gone from an otherwise unchanged
\* document, findElement given a snapshot node's primary selector returns the
\* element that node was created from, for every node with a fallback selector
\* and every framework classification.
C2_StrippedMarkersResolve ==
  OnlyMarkersStripped =>
    LET flat == walkNodes(skeleton.nodes) IN
    \A fw \in FrameworkType : \A k \in 1..Len(flat) :
      flat[k].fallbackSelector # EmptySel =>
        findElement(dom, flat[k].selector, flat, fw).el = flat[k].el

\* C3: applyTransforms executes no action for an instruction whose selector is
\* not the selector of a node of the snapshot passed along with the EditSet.
C3_OnlySnapshotSelectors ==
  \A p \in 1..Len(passes) : passes[p].withSkeleton =>
    LET flat == walkNodes(skeleton.nodes) IN
    \A k \in 1..Len(passes[p].log) :
      passes[p].log[k].outcome = "executed" =>
        \E n \in 1..Len(flat) :
          flat[n].selector = passes[p].transforms[passes[p].log[k].idx].selector

\* C4: between two restores no element has more than one action executed on it,
\* whichever passes the instructions belong to.
C4_AtMostOneAction == \A e \in Elems(dom) : execs[e] <= 1

\* C5: when cleanupTransforms has run, with no pass in progress and no callback
\* pending, every element has the inline style and the place in the document it
\* had before the edits.
C5_CleanupRestores ==
  (lastOp.op = "cleanup" /\ lastOp.quiet) =>
    (dom.style = LiveDoc.style /\ dom.kids = LiveDoc.kids)

\* log positions a, b of pass ps: a remove of an element and a mark of one of
\* its descendants (in the document the snapshot was taken of)
RemoveAndMarkBelow(ps, a, b) ==
  /\ ps.transforms[ps.log[a].idx].action = "collapse"
  /\ ps.transforms[ps.log[b].idx].action = "highlight"
  /\ ps.log[a].el # NoEl /\ ps.log[b].el # NoEl /\ ps.log[a].el # ps.log[b].el
  /\ ps.log[b].el \in Subtree(LiveDoc, ps.log[a].el)

\* C6 as stated: with a remove of a parent and a lower-scored mark of one of its
\* descendants in one EditSet, the finished pass has not executed the mark: it
\* skipped it as ancestor-collapsed.
C6_MarkSkipped ==
  \A p \in 1..Len(passes) : passes[p].pc = "done" =>
    \A a, b \in 1..Len(passes[p].log) :
      (/\ RemoveAndMarkBelow(passes[p], a, b)
       /\ passes[p].transforms[passes[p].log[b].idx].relevance
            < passes[p].transforms[passes[p].log[a].idx].relevance)
      => passes[p].log[b].outcome = "collapsed"

\* the stored original-state values of an element's dataset
Stored(ds) == [ds EXCEPT !.transformed = FALSE, !.collapsed = FALSE]

MarkFirst ==
  \A p \in 1..Len(passes) : \A a, b \in 1..Len(passes[p].log) :
    RemoveAndMarkBelow(passes[p], a, b) =>
      b < a

OnlyOwnStored ==
  \A e \in Elems(dom) :
    Stored(dom'.ds[e]) # Stored(dom.ds[e]) =>
      \/ lastOp'.op = "cleanup"
      \/ lastOp'.op = "execute" /\ timers[1].el = e

\* C6, amended: with a remove of a parent and a mark of one of its descendants
\* in one EditSet, the pass processes the mark before the remove, whatever the
\* scores, so that this remove cannot get the mark skipped as
\* ancestor-collapsed; and a step changes the stored original-state values of no
\* element but the one it acts on (or restores).
C6_MarkBeforeRemove == [][MarkFirst' /\ OnlyOwnStored]_vars

\* a finished main pass that was given the remove first and with the higher
\* score, executed the mark on the descendant and then the remove on the parent
C6_Witness ==
  \E p \in 1..Len(passes) :
    /\ passes[p].pc = "done"
    /\ Len(passes[p].transforms) = 2
    /\ passes[p].transforms[1].action = "collapse"
    /\ passes[p].transforms[1].relevance > passes[p].transforms[2].relevance
    /\ Len(passes[p].log) = 2
    /\ RemoveAndMarkBelow(passes[p], 2, 1)
    /\ passes[p].log[1].outcome = "executed"
    /\ passes[p].log[2].outcome = "executed"

AdditiveActions == {"highlight", "annotate", "reorder"}

C8_OnePassAtATime ==
  Cardinality({p \in 1..Len(passes) : InProgress(passes[p])}) <= 1

\* C9: findElement raises no exception, whatever selector string an
\* instruction carries and whatever state the document is in.
C9_FindElementTotal ==
  \A e \in EditPool \cup LinkEditPool : \A fw \in FrameworkType :
    ~findElement(dom, e.selector, walkNodes(skeleton.nodes), fw).thrown

\* C10: a pass is not rejected: no instruction keeps the remaining ones from
\* being processed (here for EditSets whose target selectors are all CSS
\* selectors).
C10_PassCompletes ==
  \A p \in 1..Len(passes) :
    (\A k \in 1..Len(passes[p].transforms) :
       passes[p].transforms[k].selector.k \notin {"invalid", "empty"})
    => passes[p].pc # "rejected"


\* the child list of snapshot node n against the list deduplicateSiblings
\* returned for it
ChildListCut(n) ==
  LET k == Len(n.dedupedIds) IN
  /\ Len(n.children) <= 31
  /\ k > 30 =>
       /\ Len(n.children) = 31
       /\ \A i \in 1..20 : n.children[i].id = n.dedupedIds[i] /\ n.children[i].tag # "synthetic"
       /\ n.children[21].tag = "synthetic"
       /\ n.children[21].children = <<>>
       /\ n.children[21].textPreview = MoreItemsText(k - 30)
       /\ \A i \in 1..10 : /\ n.children[21 + i].id = n.dedupedIds[k - 10 + i]
                           /\ n.children[21 + i].tag # "synthetic"

\* C11: a node with more than 30 child nodes after deduplication is emitted
\* with exactly 31: the first 20, one synthetic node reporting (count - 30) more
\* items, the last 10, in their order; no snapshot node has more than 31
\* children.
C11_ChildLimit ==
  snap.taken => \A n \in Range(walkNodes(snap.nodes)) : ChildListCut(n)

\* a snapshot with a node whose child list was cut
C11_Witness ==
  /\ snap.taken
  /\ \E n \in Range(walkNodes(snap.nodes)) : Len(n.dedupedIds) > 30 /\ Len(n.children) = 31

\* the nesting depth of the deepest node of a node list, the list's own nodes
\* being at depth 0 (-1 for the empty list)
RECURSIVE SnapshotDepth(_)
SnapshotDepth(nodes) ==
  IF nodes = <<>> THEN -1
  ELSE 1 + (CHOOSE m \in {SnapshotDepth(nodes[i].children) : i \in 1..Len(nodes)} :
              \A i \in 1..Len(nodes) : SnapshotDepth(nodes[i].children) <= m)

\* C12: no snapshot node is nested deeper than MAX_DEPTH, the nodes of the
\* body's children being at depth 0, shadow roots included.
C12_DepthBound == snap.taken => SnapshotDepth(snap.nodes) <= 6

\* a document nested deeper than the limit, with snapshot nodes down to depth 6
C12_Witness ==
  /\ snap.taken
  /\ Len(shape.ws) > 7
  /\ SnapshotDepth(snap.nodes) = 6



\* the call resolved a marker selector below tier 1
BelowTier1(op) == op.op = "find" /\ op.sel.k = "marker" /\ op.t1 = NoEl /\ op.el # NoEl

\* C13: when findElement resolves a marker selector through tier 2 or 3, the
\* found element carries that node id when it returns, and the findElement
\* call that follows with the same selector returns it from tier 1.
C13_RestampThenTier1 ==
  /\ BelowTier1(lastOp) =>
       dom.marker[lastOp.el] = lastOp.sel.n /\ querySelector(dom, lastOp.sel) = lastOp.el
  /\ (lastOp.op = "find" /\ lastOp.prev.below /\ lastOp.prev.sel = lastOp.sel
       /\ lastOp.sel.k = "marker") =>
       lastOp.t1 = lastOp.prev.el /\ lastOp.el = lastOp.prev.el

\* a findElement call right after one that resolved the same marker selector
\* below tier 1
C13_Witness ==
  /\ lastOp.op = "find"
  /\ lastOp.sel.k = "marker"
  /\ lastOp.prev.below
  /\ lastOp.prev.sel = lastOp.sel
  /\ lastOp.el # NoEl

\* the order of the tiers in a findElement call whose tiers found t1, t2, t3
TierOrder(op, framework) ==
  /\ op.t1 = Throws => op.thrown
  /\ op.t1 \notin {NoEl, Throws} => op.el = op.t1 /\ ~op.thrown
  /\ (op.t1 = NoEl /\ framework = "next") =>
       op.el = (IF op.t3 # NoEl THEN op.t3 ELSE op.t2) /\ ~op.thrown
  /\ (op.t1 = NoEl /\ framework # "next") =>
       op.el = (IF op.t2 # NoEl THEN op.t2 ELSE op.t3) /\ ~op.thrown
  /\ (op.el = NoEl /\ ~op.thrown) => op.t1 = NoEl /\ op.t2 = NoEl /\ op.t3 = NoEl

\* C14: findElement tries tier 1 first, then tier 3 before tier 2 for a
\* document classified 'next' and tier 2 before tier 3 for every other
\* classification, and returns null only when all three tiers found nothing.
C14_TierOrder == lastOp.op = "find" => TierOrder(lastOp, detectFramework(win))

\* a call on a 'next' document where tier 1 finds nothing and tiers 2 and 3
\* find different elements: the call returns what tier 3 found
C14_Witness ==
  /\ lastOp.op = "find"
  /\ detectFramework(win) = "next"
  /\ lastOp.t1 = NoEl
  /\ lastOp.t2 # NoEl
  /\ lastOp.t3 # NoEl
  /\ lastOp.t2 # lastOp.t3
  /\ lastOp.el = lastOp.t3


\* the label of instruction t stands before el: a label element with its text
\* whose next sibling is el
LabelBefore(d, t, el) ==
  \E k \in 1..Len(d.badges) : d.badges[k].text = t.annotation /\ d.badges[k].before = el

\* pass ps has executed an annotate instruction with a label text on an
\* element that has a parent: entry k of its log
AnnotateApplied(ps, k) ==
  /\ ps.log[k].outcome = "executed"
  /\ ps.transforms[ps.log[k].idx].action = "annotate"
  /\ ps.transforms[ps.log[k].idx].annotation # ""
  /\ ParentElement(dom, ps.log[k].el) # NoEl

\* C15: after applyTransforms has applied a label edit with a label text to an
\* element that has a parent, a label element with that text stands right
\* before the element (until a cleanup removes it).
C15_LabelInjected ==
  cleanups = 0 =>
    \A p \in 1..Len(passes) : \A k \in 1..Len(passes[p].log) :
      AnnotateApplied(passes[p], k) =>
        LabelBefore(dom, passes[p].transforms[passes[p].log[k].idx], passes[p].log[k].el)


\* the instruction pass ps is about to execute behind its stagger delay
Instruction(ps) == ps.transforms[ps.order[ps.i]]

\* the element the snapshot node with selector sel was taken from
SnapshotTarget(sel) ==
  FirstOr([k \in 1..Len(SelectSeq(walkNodes(skeleton.nodes), LAMBDA n : n.selector = sel)) |->
             SelectSeq(walkNodes(skeleton.nodes), LAMBDA n : n.selector = sel)[k].el], NoEl)

\* el is the previous sibling of target in document d
RightBefore(d, el, target) ==
  /\ target # NoEl
  /\ d.parent[el] = d.parent[target]
  /\ IndexOf(d.kids[d.parent[target]], el) + 1 = IndexOf(d.kids[d.parent[target]], target)

\* where instruction t wants el, in document d
AtPosition(d, el, t) ==
  CASE t.position = "top" -> d.kids[d.parent[el]][1] = el
    [] t.position = "above" -> RightBefore(d, el, SnapshotTarget(t.psel))
    [] OTHER -> TRUE

\* this step applies the relocate instruction t of pass p to el
RelocateApplied(p, el, t) ==
  /\ t.action = "reorder"
  /\ lastOp'.op = "execute"
  /\ passes'[p].log # passes[p].log
  /\ ParentElement(dom, el) # NoEl

\* the step leaves a fixed or sticky el where it was and puts any other el
\* where t wants it
Relocated(el, t) ==
  IF dom.pos[el] \in {"fixed", "sticky"}
  THEN dom'.kids = dom.kids /\ dom'.parent = dom.parent
  ELSE AtPosition(dom', el, t)

\* C16: a relocate edit leaves the order unchanged for a fixed or sticky
\* element; otherwise the element is the first child of its parent for 'top',
\* or the previous sibling of the live element of the referenced snapshot
\* node for 'above:<selector>', once the edit is applied (no cleanup having
\* run).
C16_Relocated ==
  [][(cleanups = 0 /\ timers # <<>> /\ timers[1].kind = "delay"
      /\ RelocateApplied(timers[1].p, timers[1].el, Instruction(passes[timers[1].p])))
     => Relocated(timers[1].el, Instruction(passes[timers[1].p]))]_vars


\* element e of document d carries none of the markers and no stored original
\* value
NoTrace(d, e) == d.marker[e] = NoId /\ d.ds[e] = NoData

\* C17: when cleanupTransforms returns, no element carries the node marker,
\* the applied marker, the removed marker or a stored original value, and the
\* document holds no label element and no digest panel.
C17_NoTraceLeft ==
  lastOp.op = "cleanup" =>
    /\ \A e \in 1..dom.n : NoTrace(dom, e)
    /\ dom.badges = <<>>
    /\ ~digest


\* C18: waitForDomStable resolves no later than 6 s after the call whatever
\* the document does, and no later than the end of the first second without a
\* mutation: it is never unresolved beyond either, and it does resolve.
C18_SettlesInTime ==
  /\ [](wait.resolvedAt = -1 =>
          wait.now <= 6000 /\ wait.now - wait.lastMutation <= 1000)
  /\ [](wait.resolvedAt # -1 => wait.resolvedAt <= 6000)
  /\ <>(wait.resolvedAt # -1)

\* the document never stopped mutating and the call resolved at the hard cap
C18_Witness ==
  /\ wait.resolvedAt = 6000
  /\ wait.lastMutation = 6000


\* the raw response parses to a JSON object with a transforms array
IsEditSetJson(raw) ==
  raw.text = "json" /\ raw.root.kind = "object" /\ raw.root.tt = "array"

\* an entry that is an object with an action of the enabled set, a non-empty
\* string selector and a numeric relevance
WellFormed(t) ==
  /\ t.kind = "object"
  /\ t.action.t = "string"
  /\ t.action.s \in settings.enabledActions
  /\ t.selector.t = "string"
  /\ t.selector.s # "" \/ t.selector.sel # EmptySel
  /\ t.relevance.t = "number"

C20_FallbackActsOnNothing ==
  (parsed.called /\ ~IsEditSetJson(parsed.raw)) =>
    /\ ~parsed.result.thrown
    /\ parsed.result.transforms = <<>>
    /\ \A e \in Elems(LiveDoc) : execs[e] = 0
    /\ \A p \in 1..Len(passes) : passes[p].log = <<>> /\ passes[p].found = 0
    /\ dom = [LiveDoc EXCEPT !.marker = extractSkeleton(LiveDoc).marker]
    /\ timers = <<>>
    /\ frames = <<>>

\* the fallback answer has been applied: the pass is over
C20_Witness ==
  /\ parsed.called
  /\ ~IsEditSetJson(parsed.raw)
  /\ Len(passes) = 1
  /\ passes[1].pc = "done"


\* C21: when the request to the reasoning service fails (no API key, the
\* fetch rejects, or the status is not OK) the page is answered
\* TRANSFORM_ERROR with no edits: main makes no applyTransforms call, no
\* action is executed on any element, the document stays as it was sent, and
\* main ends in startSignalCollection([])
C21_FailureIsNoEdits ==
  (worker.pc # "none" /\ worker.trip.failed) =>
     /\ worker.trip.message = "TRANSFORM_ERROR"
     /\ worker.trip.accepted = <<>>
     /\ passes = <<>>
     /\ \A e \in DOMAIN execs : execs[e] = 0
     /\ dom = SentDoc
     /\ mainPc = "collecting"
     /\ signals = [called |-> TRUE, transforms |-> <<>>]

C21_Witness ==
  /\ worker.pc = "idle"
  /\ worker.trip.failed
  /\ worker.cachedSettings.apiKey
  /\ worker.trips = MaxTrips


\* C29: every edit parseResponse accepts has an action type that is enabled
\* in the settings the user has saved at the time the response is parsed,
\* also when the settings were saved after an earlier round trip of the same
\* service-worker lifetime
C29_DisabledNeverAccepted ==
  (worker.pc # "none" /\ worker.trip.message = "TRANSFORMS_READY") =>
     \A k \in 1..Len(worker.trip.accepted) :
        worker.trip.accepted[k].action.s \in worker.trip.parsedWith


\* C28: every edit parseResponse accepts has a relevance from 0 to 100
C28_RelevanceInRange ==
  parsed.called =>
     \A k \in 1..Len(parsed.result.transforms) :
        /\ parsed.result.transforms[k].relevance.n >= 0
        /\ parsed.result.transforms[k].relevance.n <= 100


\* C22: on a page whose snapshot has no top-level node main sends no
\* SKELETON_READY message and makes no applyTransforms call: no round trip
\* is under way for the page, none has answered it, and main has ended
C22_EmptySkipsReasoning ==
  /\ (skeleton.taken /\ skeleton.nodes = <<>>) =>
        /\ mainPc = "empty"
        /\ worker.pc = "idle"
        /\ worker.trip = NoTrip
        /\ passes = <<>>
        /\ ~signals.called
  /\ worker.sent = worker.trips + (IF worker.pc = "idle" THEN 0 ELSE 1)

\* an empty page loaded after a page that was answered
C22_Witness ==
  /\ skeleton.taken
  /\ skeleton.nodes = <<>>
  /\ worker.trips > 0


\* the (selector, action) pairs of the instructions pass ps executed, in the
\* order of the response
ExecutedPairs(ps) ==
  LET done == {ps.log[k].idx : k \in {j \in 1..Len(ps.log) : ps.log[j].outcome = "executed"}}
      kept == SelectSeq([k \in 1..Len(ps.transforms) |-> k], LAMBDA k : k \in done)
  IN [j \in 1..Len(kept) |->
        [selector |-> ps.transforms[kept[j]].selector, action |-> ps.transforms[kept[j]].action]]

\* C23: the pairs main hands to startSignalCollection after its
\* applyTransforms call are exactly the instructions that call executed; an
\* instruction that was missed or skipped is not among them
C23_SignalsAreExecuted ==
  \A p \in 1..Len(passes) :
    (passes[p].kind = "main" /\ passes[p].pc = "done" /\ signals.called) =>
       signals.transforms = ExecutedPairs(passes[p])


\* C24: when getSiteStyle raises, applyTransforms still resolves and has
\* looked at every instruction it was given: the failure does not end the call
C24_StyleFailureHarmless ==
  \A p \in 1..Len(passes) :
    (getSiteStyle(win).thrown /\ ~InProgress(passes[p])) =>
       /\ passes[p].pc = "done"
       /\ Len(passes[p].log) = Len(passes[p].transforms)


\* this step applies the deemphasize instruction t of pass p to el
DimApplied(p, el, t) ==
  /\ t.action = "dim"
  /\ lastOp'.op = "execute"
  /\ passes'[p].log # passes[p].log

\* the step did to el what out, the outcome of a remove instruction, says
SameAs(el, out) ==
  /\ dom'.style = out.d.style
  /\ dom'.ds = out.d.ds
  /\ dom'.kids = out.d.kids
  /\ frames' = frames \o out.frames
  /\ out.timeouts # <<>>
  /\ \A j \in 1..Len(out.timeouts) : \E k \in 1..Len(timers') :
       /\ timers'[k].kind = out.timeouts[j].kind
       /\ timers'[k].el = el
       /\ timers'[k].due = out.timeouts[j].due

AsRemove(el, t) ==
  SameAs(el, executeAction([dom EXCEPT !.ds[el].transformed = TRUE], el,
                           [t EXCEPT !.action = "collapse"], FALSE))

\* the step stored el's opacity and pointer-events, set the applied marker and
\* the opacity transition, asked for the dim frame, and did nothing else
DimOnly(el) ==
  /\ dom'.style = [dom.style EXCEPT ![el].transition = "opacity"]
  /\ dom'.ds = [dom.ds EXCEPT ![el].transformed = TRUE,
                              ![el].opacity = dom.style[el].opacity,
                              ![el].pointerEvents = dom.style[el].pointerEvents]
  /\ dom'.kids = dom.kids
  /\ frames' = frames \o <<FrameCb("dim", el)>>
  /\ \A k \in 1..Len(timers') : ~(timers'[k].kind = "hide" /\ timers'[k].el = el)

\* the dim frame of el: opacity and pointer-events, nothing else
DimFrame(el) ==
  /\ dom'.style[el] = [dom.style[el] EXCEPT !.opacity = "0.12", !.pointerEvents = "none"]
  /\ dom'.ds[el] = dom.ds[el]

Stamped == [LayeredDoc(shape.ws, shape.mode) EXCEPT !.marker = snap.marker]

\* selector sel, when there is one, resolves in d to el
ResolvesTo(d, sel, el) == sel # EmptySel => querySelector(d, sel) = el

\* both selectors of every node of flat resolve in d to the node's element
AllResolve(d, flat) ==
  \A k \in 1..Len(flat) :
     /\ ResolvesTo(d, flat[k].selector, flat[k].el)
     /\ ResolvesTo(d, flat[k].fallbackSelector, flat[k].el)

\* C26: right after extractSkeleton has returned, the primary selector of
\* every snapshot node that has one resolves through document.querySelector
\* to the element the node was created from, and so does its fallback
\* selector when it has one
C26_SelectorsResolve ==
  (snap.taken /\ cleanups = 0) => AllResolve(Stamped, walkNodes(snap.nodes))


\* text has no whitespace at either end and no two whitespace characters in
\* a row
Normalised(text) ==
  /\ text # <<>> => ~IsWs(text[1]) /\ ~IsWs(text[Len(text)])
  /\ \A i \in 1..(Len(text) - 1) : ~(IsWs(text[i]) /\ IsWs(text[i + 1]))
  /\ \A i \in 1..Len(text) : IsWs(text[i]) => text[i] = " "

\* C27: getTextPreview returns, for every element, a string without leading
\* or trailing whitespace, without a run of whitespace longer than one space,
\* and of at most TEXT_PREVIEW_LENGTH characters plus the three of the
\* truncation marker
C27_PreviewNormalised ==
  lastOp.op = "preview" =>
     /\ Normalised(lastOp.result)
     /\ Len(lastOp.result) <= TEXT_PREVIEW_LENGTH + 3


\* the ids of the nodes of flat
IdsOf(flat) == {flat[k].id : k \in 1..Len(flat)}

\* C30: no two nodes of one snapshot, element nodes and synthetic nodes at
\* any level alike, have the same id
C30_UniqueIds ==
  snap.taken => Cardinality(IdsOf(walkNodes(snap.nodes))) = countNodes(snap.nodes)

\* a snapshot of several levels with a synthetic node among its nodes
C30_Witness ==
  /\ snap.taken
  /\ SnapshotDepth(snap.nodes) >= 3
  /\ \E n \in Range(walkNodes(snap.nodes)) : n.tag = "synthetic" /\ n.id # NoId
  /\ countNodes(snap.nodes) > MAX_CHILDREN


\* log entry a of pass ps is an executed remove, or an executed deemphasize
\* that the switch turned into a remove
RemoveExecuted(ps, a) ==
  /\ ps.log[a].outcome = "executed"
  /\ \/ ps.transforms[ps.log[a].idx].action = "collapse"
     \/ ps.transforms[ps.log[a].idx].action = "dim" /\ ps.removeGrayedSections

\* C31: within one pass, once a remove (or a deemphasize acting as remove) has
\* been executed on an element, no instruction processed later in the pass
\* is executed on a descendant of that element
C31_NothingBelowRemoved ==
  \A p \in 1..Len(passes) : \A a, b \in 1..Len(passes[p].log) :
    (/\ a < b
     /\ RemoveExecuted(passes[p], a)
     /\ passes[p].log[b].el # passes[p].log[a].el
     /\ passes[p].log[b].el \in Subtree(LiveDoc, passes[p].log[a].el))
    => passes[p].log[b].outcome # "executed"

\* node n belongs to the run that starts with node first
InRun(first, n) ==
  /\ first.type = n.type
  /\ first.children = <<>>
  /\ n.children = <<>>
  /\ areSimilarPreviews(first.textPreview, n.textPreview)

\* the last index of the run of nodes that starts at index s
RunEnd(nodes, s) ==
  CHOOSE e \in s..Len(nodes) :
    /\ \A j \in (s + 1)..e : InRun(nodes[s], nodes[j])
    /\ e < Len(nodes) => ~InRun(nodes[s], nodes[e + 1])

\* the indices at which the runs of nodes start, from index s on
RECURSIVE RunStarts(_, _)
RunStarts(nodes, s) ==
  IF s > Len(nodes) THEN <<>> ELSE <<s>> \o RunStarts(nodes, RunEnd(nodes, s) + 1)

\* node n standing for a run of count nodes
Annotated(n, count) ==
  IF count > 1
  THEN [n EXCEPT !.textPreview = RepeatPrefix(count) \o n.textPreview, !.rep = count]
  ELSE n

RunLength(nodes, starts, k) == RunEnd(nodes, starts[k]) - starts[k] + 1

\* the run length a node of the output is annotated with: the number in its
\* repeat prefix, 1 without one
HasRepeatPrefix(text, c) ==
  /\ Len(text) >= Len(RepeatPrefix(c))
  /\ SubSeq(text, 1, Len(RepeatPrefix(c))) = RepeatPrefix(c)

RepeatCount(n, limit) ==
  IF \E c \in 2..limit : HasRepeatPrefix(n.textPreview, c)
  THEN CHOOSE c \in 2..limit : HasRepeatPrefix(n.textPreview, c)
  ELSE 1

RECURSIVE SumCounts(_, _)
SumCounts(out, limit) ==
  IF out = <<>> THEN 0 ELSE RepeatCount(Head(out), limit) + SumCounts(Tail(out), limit)

\* out is nodes with every run replaced by its first member, annotated with
\* the run length
RunsReplaced(nodes, out, starts) ==
  /\ Len(out) = Len(starts)
  /\ \A k \in 1..Len(out) : out[k] = Annotated(nodes[starts[k]], RunLength(nodes, starts, k))
  /\ SumCounts(out, Len(nodes)) = Len(nodes)
  /\ \A k \in 1..Len(out) : out[k].children # <<>> => out[k] = nodes[starts[k]]
  /\ \A i \in 1..Len(nodes) :
       nodes[i].children # <<>> => \E k \in 1..Len(out) : out[k] = nodes[i]

\* C32: deduplicateSiblings keeps the order and accounts for every input
\* sibling: the output is the input with each run of consecutive childless
\* siblings of one type whose excerpt is similar to the run's first member
\* replaced by that first member annotated with the run length; the run
\* lengths add up to the input length; a node with children is never merged
C32_DedupAccounts ==
  lastOp.op = "dedup" => RunsReplaced(lastOp.nodes, lastOp.result, RunStarts(lastOp.nodes, 1))

\* a list of three whose first two nodes are merged: the third is similar to
\* the second but not to the first
C32_Witness ==
  /\ lastOp.op = "dedup"
  /\ Len(lastOp.nodes) = 3
  /\ Len(lastOp.result) = 2
  /\ lastOp.result[1].rep = 2
  /\ InRun(lastOp.nodes[2], lastOp.nodes[3])

SnapshotSelectors == {n.selector : n \in Range(walkNodes(skeleton.nodes))} \ {EmptySel}

\* C34: resolution and re-stamping keep the mapping from snapshot nodes to
\* live elements injective: no live element is returned by findElement for two
\* different snapshot selectors (here: by two calls in a row)
C34_ResolutionInjective ==
  (/\ lastOp.op = "find"
   /\ lastOp.el # NoEl
   /\ lastOp.sel \in SnapshotSelectors
   /\ lastOp.prev.sel \in SnapshotSelectors
   /\ lastOp.prev.sel # lastOp.sel)
  => lastOp.prev.el # lastOp.el

\* this step is the loop body of a pass behind its stagger delay, acting on
\* element el
ActsOn(el) ==
  /\ timers # <<>>
  /\ timers[1].kind = "delay"
  /\ timers[1].el = el
  /\ lastOp'.op = "execute"

\* the step changes nothing in the document but the applied marker of el, and
\* requests no animation frame
OnlyMarks(el) ==
  /\ dom' # dom
  /\ dom' = [dom EXCEPT !.ds[el].transformed = TRUE]
  /\ frames' = frames

\* C35: an element carries the applied marker only if an action changed it: a
\* loop body whose action is refused or changes nothing in the document does
\* not set the marker
C35_MarkedOnlyIfChanged ==
  [][\A el \in Elems(dom) : ActsOn(el) => ~OnlyMarks(el)]_vars

\* this step runs something that was pending when cleanupTransforms returned
\* in the step before: a timeout callback of an action, an animation-frame
\* callback, or the loop body of a pass behind its stagger delay
PendingRunsAfterCleanup ==
  /\ lastOp.op = "cleanup"
  /\ lastOp'.op \in {"timeout", "frame", "execute"}

\* C36: what was pending when cleanupTransforms ran does not change the
\* document afterwards: the restored elements stay as they are and carry no
\* marker
C36_NothingAfterCleanup ==
  [][PendingRunsAfterCleanup => (dom' = dom /\ digest' = digest)]_vars

\* element e of document d is hidden, or on its way to being hidden by
\* executeCollapse, or carries the removed marker
Removed(d, e) ==
  \/ d.style[e].display = "none"
  \/ d.style[e].overflow = "hidden"
  \/ d.ds[e].collapsed

\* C37: with the remove action disabled in the enabled-action settings, no
\* pass hides an element or gives it the removed marker, whatever else is
\* enabled and whatever removeGrayedSections says
C37_DisabledRemoveNeverHides ==
  "collapse" \notin settings.enabledActions => \A e \in Elems(dom) : ~Removed(dom, e)

\* main() has come to its end and no pass has executed an edit
EndedWithoutEdit ==
  /\ mainPc = "collecting"
  /\ \A p \in 1..Len(passes) : passes[p].found = 0

\* C38: when a round trip ends without any edit having been executed (the
\* reasoning step failed, or returned no edit, or no target was resolved), no
\* element of the document carries the node marker afterwards
C38_StampsDoNotOutlive ==
  EndedWithoutEdit => \A e \in Elems(dom) : dom.marker[e] = NoId

\* C39: the top-level node list of the snapshot (the kept children of the
\* document body) obeys the fan-out cap of every other child list: it never
\* has more than MAX_CHILDREN + 1 entries
C39_TopLevelCapped == snap.taken => Len(snap.nodes) <= MAX_CHILDREN + 1

====
